---- MODULE Spec2Model ----
(***************************************************************************)
(* PSChecker: the password-analysis endpoint of the server                 *)
(* (src/server/routes/password-analysis.ts) with its breach cache, the     *)
(* breach provider it queries and the two tables it writes.                *)
(*                                                                         *)
(* A string is a sequence of one-character strings, so that the regular    *)
(* expressions, split, trim, parseInt and the hex digests of the code are  *)
(* computed character by character.                                        *)
(***************************************************************************)
EXTENDS Integers, Sequences, FiniteSets, TLC

VARIABLES
  now,              \* Date.now()
  ticks,            \* clock advances so far
  served,           \* requests received so far
  breachCache,      \* password -> [isBreached, count, timestamp]
  pc,               \* where each request's handler stands
  req,              \* the request a handler serves
  analysis,         \* the handler's analysis object
  breachInfo,       \* what checkPasswordBreach resolved to
  fetchUrl,         \* the prefix of the provider request a handler sent
  res,              \* the response sent
  passwordChecks,   \* table password_checks
  passwordHistory,  \* table password_history
  trace,            \* per request: how its breach lookup went
  input,            \* the argument of a function applied on its own
  output,           \* what the function returned
  users,            \* table users
  loginAttempts,    \* table login_attempts
  reply,            \* what an account or admin handler did and answered
  page              \* the password-checker page of the client

\* the state outside the analysis endpoint
others == <<input, output, users, loginAttempts, reply, page>>

(***************************************************************************)
(* Characters                                                              *)
(***************************************************************************)
LowerChars == <<"a","b","c","d","e","f","g","h","i","j","k","l","m",
                "n","o","p","q","r","s","t","u","v","w","x","y","z">>
UpperChars == <<"A","B","C","D","E","F","G","H","I","J","K","L","M",
                "N","O","P","Q","R","S","T","U","V","W","X","Y","Z">>
DigitChars == <<"0","1","2","3","4","5","6","7","8","9">>
\* the character class [!@#$%^&*(),.?":{}|<>] of the source
SpecialChars == {"!","@","#","$","%","^","&","*","(",")",",",".","?","\"",
                 ":","{","}","|","<",">"}
\* characters String.prototype.trim removes, and the line terminators "." skips
WhiteChars == {" ", "\t", "\n", "\r"}
LineTerminators == {"\n", "\r"}

Range(s) == {s[i] : i \in 1..Len(s)}
IndexOf(s, c) == IF c \in Range(s) THEN CHOOSE i \in 1..Len(s) : s[i] = c ELSE 0

LowerSet == Range(LowerChars)
UpperSet == Range(UpperChars)
DigitSet == Range(DigitChars)

IsLower(c) == c \in LowerSet
IsUpper(c) == c \in UpperSet
IsDigit(c) == c \in DigitSet
IsSpecial(c) == c \in SpecialChars

\* String.prototype.toLowerCase / toUpperCase, one character
LowerOf(c) == IF IsUpper(c) THEN LowerChars[IndexOf(UpperChars, c)] ELSE c
UpperOf(c) == IF IsLower(c) THEN UpperChars[IndexOf(LowerChars, c)] ELSE c
toLowerCase(s) == [i \in 1..Len(s) |-> LowerOf(s[i])]
toUpperCase(s) == [i \in 1..Len(s) |-> UpperOf(s[i])]

\* a position in the order of the printable characters the model uses
CharTable == LowerChars \o UpperChars \o DigitChars \o
             <<"!","@","#","$","%","^","&","*","(",")",",",".","?","\"",
               ":","{","}","|","<",">","-","_","=","+",";"," ","\t","\n","\r">>
Ord(c) == IndexOf(CharTable, c)

(***************************************************************************)
(* analyzePassword and its helpers                                         *)
(***************************************************************************)
COMMON_PASSWORDS == {
  <<"p","a","s","s","w","o","r","d">>, <<"1","2","3","4","5","6">>,
  <<"1","2","3","4","5","6","7","8","9">>, <<"q","w","e","r","t","y">>,
  <<"a","b","c","1","2","3">>,
  <<"p","a","s","s","w","o","r","d","1","2","3">>,
  <<"a","d","m","i","n">>, <<"l","e","t","m","e","i","n">>,
  <<"w","e","l","c","o","m","e">>, <<"m","o","n","k","e","y">>,
  <<"1","2","3","4","5","6","7","8","9","0">>, <<"d","r","a","g","o","n">>,
  <<"p","a","s","s">>, <<"m","a","s","t","e","r">>, <<"h","e","l","l","o">>,
  <<"f","r","e","e","d","o","m">>, <<"w","h","a","t","e","v","e","r">>,
  <<"q","a","z","w","s","x">>,
  <<"t","r","u","s","t","n","o","1">>, <<"j","o","r","d","a","n">>,
  <<"h","a","r","l","e","y">>, <<"r","o","b","e","r","t">>,
  <<"m","a","t","t","h","e","w">>, <<"j","o","r","d","a","n","2","3">>,
  <<"p","a","s","s","w","o","r","d","1">>, <<"0","0","0","0","0","0">>,
  <<"s","u","p","e","r","m","a","n">>, <<"j","e","n","n","i","f","e","r">>,
  <<"j","o","s","h","u","a">>, <<"h","u","n","t","e","r">>,
  <<"b","a","s","e","b","a","l","l">>, <<"m","i","c","h","a","e","l">>,
  <<"t","i","g","g","e","r">>, <<"m","i","c","h","e","l","l","e">>,
  <<"m","u","s","t","a","n","g">>,
  <<"l","i","v","e","r","p","o","o","l">>, <<"f","o","o","t","b","a","l","l">>,
  <<"a","c","c","e","s","s">>, <<"b","u","s","t","e","r">>,
  <<"s","o","c","c","e","r">>, <<"h","o","c","k","e","y">>,
  <<"k","i","l","l","e","r">>, <<"g","e","o","r","g","e">>,
  <<"c","o","m","p","u","t","e","r">>, <<"j","e","s","s","i","c","a">>,
  <<"p","e","p","p","e","r">>,
  <<"p","r","i","n","c","e">>, <<"s","h","a","d","o","w">>,
  <<"c","h","e","e","s","e">>, <<"d","a","k","o","t","a">>,
  <<"s","u","n","s","h","i","n","e">>, <<"i","l","o","v","e","y","o","u">>,
  <<"p","r","i","n","c","e","s","s">>, <<"h","a","n","n","a","h">>,
  <<"r","e","d","1","2","3">>, <<"a","l","e","x","a","n","d","e","r">>,
  <<"s","l","a","y","e","r">>, <<"q","w","e","r","t","y","1","2","3">>,
  <<"a","s","h","l","e","y">>, <<"t","h","o","m","a","s">>,
  <<"h","e","l","i","c","o","p","t","e","r">>, <<"t","h","u","n","d","e","r">>
}

\* RegExp.prototype.test for the four character classes
HasLowercase(password) == \E i \in 1..Len(password) : IsLower(password[i])
HasUppercase(password) == \E i \in 1..Len(password) : IsUpper(password[i])
HasNumbers(password) == \E i \in 1..Len(password) : IsDigit(password[i])
HasSpecialChars(password) == \E i \in 1..Len(password) : IsSpecial(password[i])

\* /(.)\1{2,}/
HasRepeat(password) ==
  \E i \in 1..Len(password) - 2 :
    /\ password[i] \notin LineTerminators
    /\ password[i + 1] = password[i]
    /\ password[i + 2] = password[i]

\* /012|123|234|345|456|567|678|789|890/
SeqDigitRuns ==
  {<<DigitChars[d], DigitChars[d + 1], DigitChars[d + 2]>> : d \in 1..8}
    \cup {<<"8", "9", "0">>}
HasSeqDigits(password) ==
  \E i \in 1..Len(password) - 2 : SubSeq(password, i, i + 2) \in SeqDigitRuns

\* /abc|bcd|...|xyz/i
SeqLetterRuns ==
  {<<LowerChars[d], LowerChars[d + 1], LowerChars[d + 2]>> : d \in 1..24}
HasSeqLetters(password) ==
  \E i \in 1..Len(password) - 2 :
    toLowerCase(SubSeq(password, i, i + 2)) \in SeqLetterRuns

\* floor(10^6 * Math.log2(charSpace)) for the sums of class sizes charSpace can
\* take; every comparison and rounding below agrees with the floating-point
\* value for lengths up to 40
Log2Micro(charSpace) ==
  CASE charSpace = 1 -> 0
    [] charSpace = 10 -> 3321928
    [] charSpace = 26 -> 4700439
    [] charSpace = 32 -> 5000000
    [] charSpace = 36 -> 5169925
    [] charSpace = 42 -> 5392317
    [] charSpace = 52 -> 5700439
    [] charSpace = 58 -> 5857980
    [] charSpace = 62 -> 5954196
    [] charSpace = 68 -> 6087462
    [] charSpace = 84 -> 6392317
    [] charSpace = 94 -> 6554588

Micro == 1000000

\* a faulty calculateEntropy: the sum is kept outside the function and grows
\* with every request served before
CalculateEntropyCarried(password) ==
  LET charSpace == (IF HasLowercase(password) THEN 26 ELSE 0)
                   + (IF HasUppercase(password) THEN 26 ELSE 0)
                   + (IF HasNumbers(password) THEN 10 ELSE 0)
                   + (IF HasSpecialChars(password) THEN 32 ELSE 0)
  IN  Len(password) * Log2Micro(IF charSpace = 0 THEN 1 ELSE charSpace)
        + served * Micro

\* entropy in millionths of a bit
calculateEntropy(password) ==
  LET charSpace == (IF HasLowercase(password) THEN 26 ELSE 0)
                   + (IF HasUppercase(password) THEN 26 ELSE 0)
                   + (IF HasNumbers(password) THEN 10 ELSE 0)
                   + (IF HasSpecialChars(password) THEN 32 ELSE 0)
  IN  Len(password) * Log2Micro(IF charSpace = 0 THEN 1 ELSE charSpace)

\* the first threshold "seconds" is below, in millionths of a bit of entropy:
\* seconds = 2^entropy / 2 / 1e9 < T  iff  entropy < 1 + log2(1e9 * T)
CrackBuckets == <<
  [below |-> 30897353, display |-> "Instantly"],   \* seconds < 1
  [below |-> 36804244, display |-> "seconds"],     \* seconds < 60
  [below |-> 42711135, display |-> "minutes"],     \* seconds < 3600
  [below |-> 47296097, display |-> "hours"],       \* seconds < 86400
  [below |-> 52223845, display |-> "days"],        \* seconds < 2629746
  [below |-> 55808808, display |-> "months"],      \* seconds < 31556952
  [below |-> 59130736, display |-> "years"],       \* seconds < 315569520
  [below |-> 62452664, display |-> "decades"] >>   \* seconds < 3155695200

\* seconds is carried as the entropy it is 2^(entropy-1)/10^9 of; display is the
\* unit of the bucket (the rounded numeral in front of it is not carried)
calculateCrackTime(entropy) ==
  LET hit == {i \in 1..Len(CrackBuckets) : entropy < CrackBuckets[i].below}
  IN  [seconds |-> [zero |-> FALSE, pow2 |-> entropy],
       display |-> IF hit = {} THEN "Centuries"
                   ELSE CrackBuckets[CHOOSE i \in hit : \A j \in hit : i <= j].display]

\* Lines 44-52 on a value of seconds. Seconds are counted in halves, so that
\* Math.round has its ties, and a count is kept as 20 * t + d, because the last
\* thresholds do not fit a machine integer.
Wide(t, d) == [t |-> t, d |-> d]
WideLess(a, b) == a.t < b.t \/ (a.t = b.t /\ a.d < b.d)
WideTimes(m, a) == Wide(m * a.t + (m * a.d) \div 20, (m * a.d) % 20)
\* T seconds as a count of half seconds, T = 10 * tens + ones
HalfSeconds(tens, ones) == Wide(tens, 2 * ones)
\* the number U = 20 * t + d of seconds in a unit
UnitSeconds(t, d) == Wide(t, d)

\* Math.round(seconds / unit) for seconds = x / 2: the number of k with
\* k - 1/2 <= seconds / unit, that is (2k - 1) * unit <= x
MaxRounded == 61
RoundedUnits(x, unit) ==
  Cardinality({k \in 1..MaxRounded : ~WideLess(x, WideTimes(2 * k - 1, unit))})

\* a faulty CrackDisplay: the number of units is cut, not rounded
CrackDisplayCut(x) ==
  LET cut(unit) ==
        Cardinality({k \in 1..MaxRounded : ~WideLess(x, WideTimes(2 * k, unit))})
  IN  IF WideLess(x, HalfSeconds(0, 1)) THEN "Instantly"
      ELSE IF WideLess(x, HalfSeconds(6, 0))
        THEN ToString(cut(UnitSeconds(0, 1))) \o " seconds"
      ELSE IF WideLess(x, HalfSeconds(360, 0))
        THEN ToString(cut(UnitSeconds(3, 0))) \o " minutes"
      ELSE IF WideLess(x, HalfSeconds(8640, 0))
        THEN ToString(cut(UnitSeconds(180, 0))) \o " hours"
      ELSE IF WideLess(x, HalfSeconds(262974, 6))
        THEN ToString(cut(UnitSeconds(4320, 0))) \o " days"
      ELSE IF WideLess(x, HalfSeconds(3155695, 2))
        THEN ToString(cut(UnitSeconds(131487, 6))) \o " months"
      ELSE IF WideLess(x, HalfSeconds(31556952, 0))
        THEN ToString(cut(UnitSeconds(1577847, 12))) \o " years"
      ELSE IF WideLess(x, HalfSeconds(315569520, 0))
        THEN ToString(cut(UnitSeconds(15778476, 0))) \o " decades"
      ELSE "Centuries"

CrackDisplay(x) ==
  IF WideLess(x, HalfSeconds(0, 1)) THEN "Instantly"
  ELSE IF WideLess(x, HalfSeconds(6, 0))
    THEN ToString(RoundedUnits(x, UnitSeconds(0, 1))) \o " seconds"
  ELSE IF WideLess(x, HalfSeconds(360, 0))
    THEN ToString(RoundedUnits(x, UnitSeconds(3, 0))) \o " minutes"
  ELSE IF WideLess(x, HalfSeconds(8640, 0))
    THEN ToString(RoundedUnits(x, UnitSeconds(180, 0))) \o " hours"
  ELSE IF WideLess(x, HalfSeconds(262974, 6))
    THEN ToString(RoundedUnits(x, UnitSeconds(4320, 0))) \o " days"
  ELSE IF WideLess(x, HalfSeconds(3155695, 2))
    THEN ToString(RoundedUnits(x, UnitSeconds(131487, 6))) \o " months"
  ELSE IF WideLess(x, HalfSeconds(31556952, 0))
    THEN ToString(RoundedUnits(x, UnitSeconds(1577847, 12))) \o " years"
  ELSE IF WideLess(x, HalfSeconds(315569520, 0))
    THEN ToString(RoundedUnits(x, UnitSeconds(15778476, 0))) \o " decades"
  ELSE "Centuries"

\* what calculateCrackTime returns for the seconds it has computed
CrackTimeOf(x) == [seconds |-> x, display |-> CrackDisplay(x)]

\* an optional field of a JavaScript object: absent, or holding v
Undefined == <<>>
Some(v) == <<v>>

Max(a, b) == IF a >= b THEN a ELSE b
Min(a, b) == IF a <= b THEN a ELSE b

\* a faulty StrengthOf: the labels of two branches are exchanged
StrengthOfExchanged(score) ==
  IF score >= 90 THEN "Very Strong"
  ELSE IF score >= 75 THEN "Strong"
  ELSE IF score >= 60 THEN "Fair"
  ELSE IF score >= 40 THEN "Good"
  ELSE IF score >= 20 THEN "Weak"
  ELSE "Very Weak"

\* the six-level mapping of analyzePassword
StrengthOf(score) ==
  IF score >= 90 THEN "Very Strong"
  ELSE IF score >= 75 THEN "Strong"
  ELSE IF score >= 60 THEN "Good"
  ELSE IF score >= 40 THEN "Fair"
  ELSE IF score >= 20 THEN "Weak"
  ELSE "Very Weak"

ColorOf(score) ==
  IF score >= 90 THEN "#10b981"
  ELSE IF score >= 75 THEN "#22c55e"
  ELSE IF score >= 60 THEN "#3b82f6"
  ELSE IF score >= 40 THEN "#eab308"
  ELSE IF score >= 20 THEN "#f97316"
  ELSE "#ef4444"

ChecksOf(password) ==
  [hasLength |-> Len(password) >= 8,
   hasUppercase |-> HasUppercase(password),
   hasLowercase |-> HasLowercase(password),
   hasNumbers |-> HasNumbers(password),
   hasSpecialChars |-> HasSpecialChars(password),
   isCommon |-> toLowerCase(password) \in COMMON_PASSWORDS]

\* the sum of credits and penalties before the clamp
RawScore(password) ==
  LET checks == ChecksOf(password)
      entropy == calculateEntropy(password)
  IN  (IF checks.hasLength THEN 20 ELSE 0)
      + (IF Len(password) >= 12 THEN 10 ELSE 0)
      + (IF Len(password) >= 16 THEN 10 ELSE 0)
      + (IF Len(password) >= 20 THEN 5 ELSE 0)
      + (IF checks.hasUppercase THEN 15 ELSE 0)
      + (IF checks.hasLowercase THEN 15 ELSE 0)
      + (IF checks.hasNumbers THEN 15 ELSE 0)
      + (IF checks.hasSpecialChars THEN 20 ELSE 0)
      - (IF checks.isCommon THEN 40 ELSE 0)
      + (IF entropy > 40 * Micro THEN 5 ELSE 0)
      + (IF entropy > 60 * Micro THEN 10 ELSE 0)
      + (IF entropy > 80 * Micro THEN 10 ELSE 0)
      - (IF HasRepeat(password) THEN 10 ELSE 0)
      - (IF HasSeqDigits(password) THEN 10 ELSE 0)
      - (IF HasSeqLetters(password) THEN 10 ELSE 0)

\* a faulty ScoreOf: the sum is returned without the clamp to 0..100
ScoreOfUnclamped(password) == RawScore(password)

\* a faulty ScoreOf: Math.max and Math.min are exchanged in the clamp
ScoreOfSwapped(password) == Min(0, Max(100, RawScore(password)))

ScoreOf(password) == Max(0, Min(100, RawScore(password)))

\* a faulty SuggestionsOf: the advisory on 12 characters is pushed second
SuggestionsOfReordered(password) ==
  LET checks == ChecksOf(password)
      pick(cond, msg) == IF cond THEN <<msg>> ELSE <<>>
      s == pick(~checks.hasLength, "Use at least 8 characters")
           \o pick(Len(password) < 12, "Consider using 12+ characters for better security")
           \o pick(~checks.hasUppercase, "Add uppercase letters (A-Z)")
           \o pick(~checks.hasLowercase, "Add lowercase letters (a-z)")
           \o pick(~checks.hasNumbers, "Include numbers (0-9)")
           \o pick(~checks.hasSpecialChars, "Add special characters (!@#$%^&*)")
           \o pick(checks.isCommon, "Avoid common passwords")
           \o pick(HasRepeat(password), "Avoid repeating characters")
           \o pick(HasSeqDigits(password), "Avoid sequential numbers")
  IN  IF Len(s) = 0
      THEN <<"Excellent! Your password meets all security criteria">>
      ELSE s

\* a faulty SuggestionsOf: the affirmative message is never pushed
SuggestionsOfSilent(password) ==
  LET checks == ChecksOf(password)
      pick(cond, msg) == IF cond THEN <<msg>> ELSE <<>>
  IN  pick(~checks.hasLength, "Use at least 8 characters")
      \o pick(~checks.hasUppercase, "Add uppercase letters (A-Z)")
      \o pick(~checks.hasLowercase, "Add lowercase letters (a-z)")
      \o pick(~checks.hasNumbers, "Include numbers (0-9)")
      \o pick(~checks.hasSpecialChars, "Add special characters (!@#$%^&*)")
      \o pick(Len(password) < 12, "Consider using 12+ characters for better security")
      \o pick(checks.isCommon, "Avoid common passwords")
      \o pick(HasRepeat(password), "Avoid repeating characters")
      \o pick(HasSeqDigits(password), "Avoid sequential numbers")

SuggestionsOf(password) ==
  LET checks == ChecksOf(password)
      pick(cond, msg) == IF cond THEN <<msg>> ELSE <<>>
      s == pick(~checks.hasLength, "Use at least 8 characters")
           \o pick(~checks.hasUppercase, "Add uppercase letters (A-Z)")
           \o pick(~checks.hasLowercase, "Add lowercase letters (a-z)")
           \o pick(~checks.hasNumbers, "Include numbers (0-9)")
           \o pick(~checks.hasSpecialChars, "Add special characters (!@#$%^&*)")
           \o pick(Len(password) < 12, "Consider using 12+ characters for better security")
           \o pick(checks.isCommon, "Avoid common passwords")
           \o pick(HasRepeat(password), "Avoid repeating characters")
           \o pick(HasSeqDigits(password), "Avoid sequential numbers")
  IN  IF Len(s) = 0
      THEN <<"Excellent! Your password meets all security criteria">>
      ELSE s

\* entropy of the result: Math.round(entropy * 10) / 10, in tenths of a bit
RoundTenths(entropy) == (entropy + 50000) \div 100000

EmptyAnalysis ==
  [score |-> 0,
   strength |-> "Very Weak",
   color |-> "#ef4444",
   suggestions |-> <<"Enter a password to get started">>,
   entropy |-> 0,
   crackTime |-> "Instantly",
   timeToCrack |-> [seconds |-> [zero |-> TRUE, pow2 |-> 0], display |-> "Instantly"],
   checks |-> [hasLength |-> FALSE, hasUppercase |-> FALSE, hasLowercase |-> FALSE,
               hasNumbers |-> FALSE, hasSpecialChars |-> FALSE, isCommon |-> FALSE],
   isBreached |-> Undefined,
   breachCount |-> Undefined]

\* a faulty analyzePassword: the empty password is not answered apart
AnalyzeWithoutEmptyCase(password) ==
  LET entropy == calculateEntropy(password)
      timeToCrack == calculateCrackTime(entropy)
      score == ScoreOf(password)
  IN  [score |-> score,
       strength |-> StrengthOf(score),
       color |-> ColorOf(score),
       suggestions |-> SuggestionsOf(password),
       entropy |-> RoundTenths(entropy),
       crackTime |-> timeToCrack.display,
       timeToCrack |-> timeToCrack,
       checks |-> ChecksOf(password),
       isBreached |-> Undefined,
       breachCount |-> Undefined]

analyzePassword(password) ==
  IF Len(password) = 0 THEN EmptyAnalysis
  ELSE LET entropy == calculateEntropy(password)
           timeToCrack == calculateCrackTime(entropy)
           score == ScoreOf(password)
       IN  [score |-> score,
            strength |-> StrengthOf(score),
            color |-> ColorOf(score),
            suggestions |-> SuggestionsOf(password),
            entropy |-> RoundTenths(entropy),
            crackTime |-> timeToCrack.display,
            timeToCrack |-> timeToCrack,
            checks |-> ChecksOf(password),
            isBreached |-> Undefined,
            breachCount |-> Undefined]

(***************************************************************************)
(* Strings of the breach protocol: digests, split, trim, parseInt          *)
(***************************************************************************)
HexChars == <<"0","1","2","3","4","5","6","7","8","9","a","b","c","d","e","f">>

\* A digest stands for the hash function of the crypto module: a fixed function
\* of the whole string, written as lowercase hex digits like digest('hex').
\* Fold is what the digits are derived from.
RECURSIVE Fold(_, _)
Fold(s, h) == IF Len(s) = 0 THEN h ELSE Fold(Tail(s), (h * 31 + Ord(Head(s))) % 65521)

\* createHash('sha1').update(s).digest('hex'): 40 hex digits. The first five take
\* few values, so that distinct passwords of the model share a prefix as distinct
\* passwords share one of the 16^5 prefixes of SHA-1.
sha1Hex(s) ==
  LET h == Fold(s, 7)
  IN  [i \in 1..40 |->
        IF i <= 5 THEN HexChars[(((h % 2) * 7 + i * 3) % 16) + 1]
        ELSE HexChars[((((h \div 2) \div (1 + (i % 4))) + i * (1 + (h % 5))) % 16) + 1]]

\* createHash('sha256').update(s).digest('hex'): 64 hex digits
sha256Hex(s) ==
  LET h == Fold(s, 11)
  IN  [i \in 1..64 |-> HexChars[(((h \div (1 + (i % 7))) + i * (1 + (h % 3))) % 16) + 1]]

\* String.prototype.substring(from) and substring(0, to)
SubstringFrom(s, from) == SubSeq(s, from + 1, Len(s))
SubstringTo(s, to) == SubSeq(s, 1, Min(to, Len(s)))

\* String.prototype.split(sep) for a one-character separator: the pieces between
\* consecutive separators
split(s, sep) ==
  LET at == {i \in 1..Len(s) : s[i] = sep}
      nth(k) == IF k = 0 THEN 0
                ELSE IF k > Cardinality(at) THEN Len(s) + 1
                ELSE CHOOSE i \in at : Cardinality({j \in at : j < i}) = k - 1
  IN  [k \in 1..Cardinality(at) + 1 |-> SubSeq(s, nth(k - 1) + 1, nth(k) - 1)]

\* String.prototype.trim
RECURSIVE TrimStart(_)
TrimStart(s) ==
  IF Len(s) > 0 /\ Head(s) \in WhiteChars THEN TrimStart(Tail(s)) ELSE s
RECURSIVE TrimEnd(_)
TrimEnd(s) ==
  IF Len(s) > 0 /\ s[Len(s)] \in WhiteChars
  THEN TrimEnd(SubSeq(s, 1, Len(s) - 1)) ELSE s
trim(s) == TrimEnd(TrimStart(s))

\* a JavaScript number: NaN or an integer
NaN == [nan |-> TRUE, v |-> 0]
Num(n) == [nan |-> FALSE, v |-> n]

\* the value of the longest prefix of s made of digits of the radix; -1 if none
RECURSIVE DigitsValue(_, _, _, _)
DigitsValue(s, radix, acc, any) ==
  LET c == IF Len(s) = 0 THEN "" ELSE LowerOf(Head(s))
      d == IF c = "" THEN -1 ELSE IndexOf(HexChars, c) - 1
  IN  IF d < 0 \/ d >= radix THEN (IF any THEN acc ELSE -1)
      ELSE DigitsValue(Tail(s), radix, acc * radix + d, TRUE)

\* parseInt(s) with no radix: leading white space, a sign, an 0x prefix, digits
parseInt(s) ==
  LET t == TrimStart(s)
      neg == Len(t) > 0 /\ Head(t) = "-"
      u == IF Len(t) > 0 /\ Head(t) \in {"-", "+"} THEN Tail(t) ELSE t
      hex == Len(u) >= 2 /\ u[1] = "0" /\ u[2] \in {"x", "X"}
      val == IF hex THEN DigitsValue(SubSeq(u, 3, Len(u)), 16, 0, FALSE)
             ELSE DigitsValue(u, 10, 0, FALSE)
  IN  IF val < 0 THEN NaN ELSE Num(IF neg THEN 0 - val ELSE val)

\* Number.prototype.toLocaleString() in the en-US locale, as a string
RECURSIVE Grouped(_)
Grouped(n) ==
  IF n < 1000 THEN ToString(n)
  ELSE LET low == n % 1000
       IN  Grouped(n \div 1000) \o ","
             \o (IF low < 10 THEN "00" ELSE IF low < 100 THEN "0" ELSE "")
             \o ToString(low)
toLocaleString(x) ==
  IF x.nan THEN "NaN"
  ELSE IF x.v < 0 THEN "-" \o Grouped(0 - x.v) ELSE Grouped(x.v)

(***************************************************************************)
(* checkPasswordBreach: the cache and the provider's answer                *)
(***************************************************************************)
\* the cache lifetime, in milliseconds
TTL == 3600000
\* sha1Hash.substring(0, 5) / substring(5)
PrefixLen == 5

RangeUrl == "https://api.pwnedpasswords.com/range/"

\* a faulty CacheFresh: an entry aged exactly TTL still counts as fresh
CacheFreshInclusive(cache, password, t) ==
  /\ password \in DOMAIN cache
  /\ t - cache[password].timestamp <= TTL

\* breachCache.get(password) followed by the freshness test
CacheFresh(cache, password, t) ==
  /\ password \in DOMAIN cache
  /\ t - cache[password].timestamp < TTL

\* breachCache.set(password, entry)
CacheSet(cache, password, entry) ==
  [k \in DOMAIN cache \cup {password} |-> IF k = password THEN entry ELSE cache[k]]

\* a faulty HashPrefix: the whole digest goes into the request
HashPrefixWhole(password) == toUpperCase(sha1Hex(password))

HashPrefix(password) == SubstringTo(toUpperCase(sha1Hex(password)), PrefixLen)
HashSuffix(password) == SubstringFrom(toUpperCase(sha1Hex(password)), PrefixLen)

NotBreached == [isBreached |-> FALSE, count |-> Num(0)]

\* a faulty ScanLines: the last matching line decides
RECURSIVE ScanLinesLast(_, _)
ScanLinesLast(lines, suffix) ==
  IF Len(lines) = 0 THEN [threw |-> FALSE, result |-> NotBreached]
  ELSE LET parts == split(lines[Len(lines)], ":")
           hashSuffix == parts[1]
       IN  IF hashSuffix = suffix
           THEN IF Len(parts) < 2
                THEN [threw |-> TRUE, result |-> NotBreached]
                ELSE [threw |-> FALSE,
                      result |-> [isBreached |-> TRUE,
                                  count |-> parseInt(trim(parts[2]))]]
           ELSE ScanLinesLast(SubSeq(lines, 1, Len(lines) - 1), suffix)

\* the for loop over the lines of the response: the first line whose part before
\* ':' is the suffix decides; a matching line with nothing after a ':' to trim
\* throws (count is undefined)
RECURSIVE ScanLines(_, _)
ScanLines(lines, suffix) ==
  IF Len(lines) = 0 THEN [threw |-> FALSE, result |-> NotBreached]
  ELSE LET parts == split(Head(lines), ":")
           hashSuffix == parts[1]
       IN  IF hashSuffix = suffix
           THEN IF Len(parts) < 2
                THEN [threw |-> TRUE, result |-> NotBreached]
                ELSE [threw |-> FALSE,
                      result |-> [isBreached |-> TRUE,
                                  count |-> parseInt(trim(parts[2]))]]
           ELSE ScanLines(Tail(lines), suffix)

\* data.split('\n') and the scan
ParseRange(data, suffix) == ScanLines(split(data, "\n"), suffix)

(***************************************************************************)
(* The endpoint's post-lookup step and the two tables                      *)
(***************************************************************************)
\* the warning put in front of the suggestions (its leading warning sign left out)
BreachWarning(count) ==
  "This password has been found in " \o toLocaleString(count)
    \o " data breaches. Choose a different password."

\* a faulty ApplyBreach: the breach fields and the warning, but no cap
ApplyBreachUncapped(a, info) ==
  LET b == [a EXCEPT !.isBreached = Some(info.isBreached),
                     !.breachCount = Some(info.count)]
  IN  IF info.isBreached
      THEN [b EXCEPT !.suggestions = <<BreachWarning(info.count)>> \o a.suggestions]
      ELSE b

\* lines 228-236: the breach fields, and the cap when the lookup says breached
ApplyBreach(a, info) ==
  LET b == [a EXCEPT !.isBreached = Some(info.isBreached),
                     !.breachCount = Some(info.count)]
      capped == Min(a.score, 30)
  IN  IF info.isBreached
      THEN [b EXCEPT !.suggestions = <<BreachWarning(info.count)>> \o a.suggestions,
                     !.score = capped,
                     !.strength = IF capped >= 25 THEN "Weak" ELSE "Very Weak",
                     !.color = IF capped >= 25 THEN "#f97316" ELSE "#ef4444"]
      ELSE b

SqlNull == "NULL"

\* analysis.isBreached ? 1 : 0   and   analysis.breachCount || 0
BreachedColumn(a) == IF a.isBreached = Some(TRUE) THEN 1 ELSE 0
CountColumn(a) ==
  IF a.breachCount = Undefined \/ a.breachCount[1].nan THEN 0 ELSE a.breachCount[1].v

\* the row passwordCheckDb.log and passwordHistoryDb.add insert
Row(userId, passwordHash, a) ==
  [user_id |-> userId,
   password_hash |-> passwordHash,
   strength_score |-> a.score,
   strength_level |-> a.strength,
   entropy |-> a.entropy,
   is_breached |-> BreachedColumn(a),
   breach_count |-> CountColumn(a)]

\* the row passwordHistoryDb.add inserts. created_at is new Date().toISOString():
\* ISO strings of the same length order as the instants they write, so the
\* column is kept as the instant in milliseconds.
HistoryRow(userId, passwordHash, a, at) ==
  Row(userId, passwordHash, a) @@ [created_at |-> at]

\* LIMIT 10 of getByUser
HistoryLimit == 10

\* passwordHistoryDb.getByUser: the rows of the user, latest created_at first,
\* at most 10. SQL leaves the order of rows with equal created_at open, so the
\* statement may return any of the sets of rows (given by their positions in
\* the table) that HistoryLimit latest rows can be.
getByUser(table, userId) ==
  LET own == {i \in 1..Len(table) : table[i].user_id = userId}
      k == Min(Cardinality(own), HistoryLimit)
  IN  {S \in SUBSET own :
         /\ Cardinality(S) = k
         /\ \A i \in S, j \in own \ S : table[i].created_at >= table[j].created_at}

PasswordHash(password) == IF Len(password) > 0 THEN sha256Hex(password) ELSE <<>>

(***************************************************************************)
(* Inputs                                                                  *)
(***************************************************************************)
\* bounds of the model
MaxReqs == 2        \* requests in flight at once
MaxRequests == 4    \* requests received in a behaviour of Spec
MaxTicks == 1       \* clock advances in a behaviour
MaxLines == 2       \* lines of a provider response
MaxRepeat == 5      \* repetitions of a unit in a generated password
MaxSaves == 11      \* requests received in a behaviour of SpecHistory

Reqs == 1..MaxReqs

RECURSIVE Repeat(_, _)
Repeat(unit, k) == IF k = 0 THEN <<>> ELSE unit \o Repeat(unit, k - 1)

Units == {
  <<"a">>, <<"7">>, <<"-">>, <<"x","y">>, <<"Q","4">>, <<"a","b","c">>,
  <<"1","2","3">>, <<"k","Z","!">>, <<"a","K","3","!">>, <<"m","-","P","8">>,
  <<"w","R","5","?","e">>, <<"g","G","2","#","j","X">>, <<"\n">> }

SamplePasswords == {
  <<"a","b","c","1">>,
  <<"P","A","S","S","W","O","R","D">>,
  <<"P","a","s","s","w","o","r","d","1">>,
  <<"-","_","=","+",";","-","_","=">>,
  <<"8","9","0","x">>,
  <<"X","y","Z","9">>,
  <<"A","a","1","!","\n","\n","\n">>,
  <<"8","9","0","1","k","P","?">>,
  <<"T","r","0","u","b","4","d","o","r","&","3","x","q","z","!","K">>,
  <<"c","o","r","r","e","c","t","h","o","r","s","e","b","a","t","t","e","r","y","s">>,
  <<"a","a","a","B","B","B","1","2","3","a","b","c","!","!","!","x","y","z","7","8","9">> }

\* the passwords of SpecInputs, where one request is followed alone
Passwords ==
  COMMON_PASSWORDS \cup SamplePasswords
    \cup {Repeat(u, k) : u \in Units, k \in 0..MaxRepeat}

\* the passwords of Spec, where requests run concurrently: their digests share
\* the prefix and differ in the suffix
ProtocolPasswords ==
  { <<"a","b","c","1">>, <<"p","a","s","s","w","o","r","d">> }

\* the passwords of SpecPairs: the empty one, and every tier on both sides of
\* the breach thresholds
PairPasswords == {
  <<>>,
  <<"p","a","s","s","w","o","r","d">>,
  <<"7">>,
  <<"a","b","c","1">>,
  <<"Q","4">>,
  <<"X","y","Z","9">>,
  Repeat(<<"x","y">>, 5),
  Repeat(<<"Q","4">>, 4),
  <<"a","K","3","!">>,
  Repeat(<<"k","Z","!">>, 3),
  Repeat(<<"a","K","3","!">>, 2),
  <<"T","r","0","u","b","4","d","o","r","&","3","x","q","z","!","K">> }

Users == {"u1", "u2"}
Callers == {Undefined} \cup {Some([id |-> u]) : u \in Users}

\* the parsed request: body.password may be missing or no string
Requests(passwords, callers, saves) ==
  [typeofPassword : {"string"}, password : passwords,
   saveToHistory : saves, user : callers]
NonStringRequests(callers, saves) ==
  [typeofPassword : {"undefined", "number"}, password : {<<>>},
   saveToHistory : saves, user : callers]

\* what follows the suffix on a line of the provider's response
OwnTails == { <<":","3">>, <<":","1","2","3","4","\r">>, <<":","0">>, <<":","x">>, <<>> }
\* the ones of Spec
ProtocolTails == { <<":","3">>, <<>> }
OtherSuffix == [i \in 1..35 |-> "0"]

\* the lines the provider may send back to a request whose password has this suffix
ProviderLines(suffix, tails) ==
  {suffix \o t : t \in tails}
    \cup {OtherSuffix \o <<":","7">>, OtherSuffix, toLowerCase(suffix) \o <<":","5">>}

RECURSIVE Join(_)
Join(lines) ==
  IF Len(lines) = 0 THEN <<>>
  ELSE IF Len(lines) = 1 THEN lines[1]
  ELSE lines[1] \o <<"\n">> \o Join(Tail(lines))

ProviderBodies(suffix, tails) ==
  LET lines == ProviderLines(suffix, tails)
  IN  {Join(ls) : ls \in UNION {[1..n -> lines] : n \in 0..MaxLines}}

\* by how much the clock advances: to just before, or to, the end of a lifetime
TickSteps == {TTL - 1, TTL}
DbOutcomes == {"ok", "logThrows", "addThrows"}

\* The functions of a password, evaluated once for each password of the model
AllPasswords == Passwords \cup ProtocolPasswords \cup PairPasswords
AnalysisOf == [p \in AllPasswords |-> analyzePassword(p)]
PrefixOf == [p \in AllPasswords |-> HashPrefix(p)]
SuffixOf == [p \in AllPasswords |-> HashSuffix(p)]
PasswordHashOf == [p \in AllPasswords |-> PasswordHash(p)]
BodiesOf == [p \in AllPasswords |-> ProviderBodies(SuffixOf[p], OwnTails)]
ProtocolBodiesOf == [p \in AllPasswords |-> ProviderBodies(SuffixOf[p], ProtocolTails)]
ScanOf == [p \in AllPasswords |->
             [data \in BodiesOf[p] |-> ParseRange(data, SuffixOf[p])]]

(***************************************************************************)
(* State                                                                   *)
(***************************************************************************)
vars == <<now, ticks, served, breachCache, pc, req, analysis, breachInfo,
          fetchUrl, res, passwordChecks, passwordHistory, trace,
          input, output, users, loginAttempts, reply, page>>

NoRequest ==
  [typeofPassword |-> "undefined", password |-> <<>>, saveToHistory |-> FALSE,
   user |-> Undefined]
NoResponse == [status |-> 0, body |-> [error |-> ""]]
NoEntry == [isBreached |-> FALSE, count |-> Num(0), timestamp |-> 0]
NoTrace ==
  [analysed |-> FALSE,    \* analyzePassword was called
   lookup |-> "none",     \* "none" | "hit" | "miss": checkPasswordBreach's cache test
   entry |-> NoEntry,     \* the cache entry a hit returned
   fetches |-> 0,         \* provider requests sent
   outcome |-> "none",    \* "none" | "found" | "absent" | "network" | "status"
                          \*   | "body" | "parse"
   db |-> "none",         \* how the database stood when the handler reached it
   dbThrew |-> FALSE]     \* a statement of the database threw

\* the default admin the database module creates (database.ts, lines 72-85)
AdminEmail == <<"a","d","m","i","n","@","s","e","c","u","r","e","p","a","s","s",".","c","o","m">>
AdminPassword == <<"S","e","c","u","r","e","P","a","s","s","2","0","2","4","!">>
AdminId == 1

\* bcrypt.hashSync(password, 12): a hash is kept as the password it was made
\* from, under a tag; comparePassword accepts exactly that password
Bcrypt(password) == <<"bcrypt", password>>

\* a row of users; last_login is NULL until the first login
UserRow(id, email, password, role, at) ==
  [id |-> id, email |-> email, password_hash |-> Bcrypt(password), role |-> role,
   created_at |-> at, last_login |-> SqlNull, is_active |-> 1]

\* nothing has been asked of the account and admin handlers
NoReply ==
  [seq |-> 0,              \* requests the handlers have taken
   handler |-> "none",     \* which handler answered last
   args |-> <<>>,          \* with which arguments
   status |-> 0,           \* the status of its response, 0 while it awaits
   token |-> Undefined,    \* the user a token was issued for
   found |-> FALSE,        \* userDb.findByEmail or findById was called
   compared |-> FALSE,     \* comparePassword was called
   awaiting |-> <<>>]      \* the login suspended at await comparePassword

\* the page as mounted: the field is empty, nothing is displayed, and the effect
\* has set the first timer
NoAnalysis == [kind |-> "null", password |-> <<>>]
MountedPage ==
  [password |-> <<>>,               \* the input field
   timer |-> Some(<<>>),            \* the pending timeout and the value it closes over
   inflight |-> {},                 \* the fetches awaiting their response
   sent |-> 0,                      \* fetches sent so far
   analysis |-> NoAnalysis,         \* what is displayed
   isChecking |-> FALSE,
   edits |-> 0]                     \* changes of the input field so far

EndpointInit ==
  /\ now = 0
  /\ ticks = 0
  /\ served = 0
  /\ breachCache = <<>>
  /\ pc = [r \in Reqs |-> "idle"]
  /\ req = [r \in Reqs |-> NoRequest]
  /\ analysis = [r \in Reqs |-> EmptyAnalysis]
  /\ breachInfo = [r \in Reqs |-> NotBreached]
  /\ fetchUrl = [r \in Reqs |-> <<>>]
  /\ res = [r \in Reqs |-> NoResponse]
  /\ passwordChecks = <<>>
  /\ passwordHistory = <<>>
  /\ trace = [r \in Reqs |-> NoTrace]

AccountsInit ==
  /\ users = [created |-> 1,
              rows |-> <<UserRow(AdminId, AdminEmail, AdminPassword, "admin", 0)>>]
  /\ loginAttempts = <<>>
  /\ reply = NoReply

PageInit == page = MountedPage

Init ==
  /\ EndpointInit
  /\ AccountsInit
  /\ PageInit
  /\ input = <<>>
  /\ output = <<>>

(***************************************************************************)
(* handlePasswordAnalysis                                                  *)
(***************************************************************************)
ServerError == [status |-> 500, body |-> [error |-> "Internal server error"]]

\* a faulty Finish: the suggestions are sent to authenticated callers only
FinishForMembers(r, q, a, db, tr) ==
  LET passwordHash == PasswordHashOf[q.password]
      userId == IF q.user = Undefined THEN SqlNull ELSE q.user[1].id
      saves == q.saveToHistory /\ q.user # Undefined /\ Len(q.password) > 0
      shown == IF q.user = Undefined THEN [a EXCEPT !.suggestions = <<>>] ELSE a
      logged == Append(passwordChecks, Row(userId, passwordHash, a))
  IN  /\ pc' = [pc EXCEPT ![r] = "done"]
      /\ analysis' = [analysis EXCEPT ![r] = a]
      /\ CASE db = "logThrows" ->
                /\ res' = [res EXCEPT ![r] = ServerError]
                /\ trace' = [trace EXCEPT ![r] = [tr EXCEPT !.db = db, !.dbThrew = TRUE]]
                /\ UNCHANGED <<passwordChecks, passwordHistory>>
           [] db = "addThrows" /\ saves ->
                /\ res' = [res EXCEPT ![r] = ServerError]
                /\ trace' = [trace EXCEPT ![r] = [tr EXCEPT !.db = db, !.dbThrew = TRUE]]
                /\ passwordChecks' = logged
                /\ UNCHANGED passwordHistory
           [] OTHER ->
                /\ res' = [res EXCEPT ![r] = [status |-> 200, body |-> shown]]
                /\ trace' = [trace EXCEPT ![r] = [tr EXCEPT !.db = db]]
                /\ passwordChecks' = logged
                /\ passwordHistory' =
                     IF saves
                     THEN Append(passwordHistory,
                                 HistoryRow(userId, passwordHash, a, now))
                     ELSE passwordHistory

\* lines 239-257: log the check, save to the history, answer; a statement of the
\* database that throws is answered 500 by the handler's catch. tr is the
\* request's trace before this step.
Finish(r, q, a, db, tr) ==
  LET passwordHash == PasswordHashOf[q.password]
      userId == IF q.user = Undefined THEN SqlNull ELSE q.user[1].id
      saves == q.saveToHistory /\ q.user # Undefined /\ Len(q.password) > 0
      logged == Append(passwordChecks, Row(userId, passwordHash, a))
  IN  /\ pc' = [pc EXCEPT ![r] = "done"]
      /\ analysis' = [analysis EXCEPT ![r] = a]
      /\ CASE db = "logThrows" ->
                /\ res' = [res EXCEPT ![r] = ServerError]
                /\ trace' = [trace EXCEPT ![r] = [tr EXCEPT !.db = db, !.dbThrew = TRUE]]
                /\ UNCHANGED <<passwordChecks, passwordHistory>>
           [] db = "addThrows" /\ saves ->
                /\ res' = [res EXCEPT ![r] = ServerError]
                /\ trace' = [trace EXCEPT ![r] = [tr EXCEPT !.db = db, !.dbThrew = TRUE]]
                /\ passwordChecks' = logged
                /\ UNCHANGED passwordHistory
           [] OTHER ->
                /\ res' = [res EXCEPT ![r] = [status |-> 200, body |-> a]]
                /\ trace' = [trace EXCEPT ![r] = [tr EXCEPT !.db = db]]
                /\ passwordChecks' = logged
                /\ passwordHistory' =
                     IF saves
                     THEN Append(passwordHistory,
                                 HistoryRow(userId, passwordHash, a, now))
                     ELSE passwordHistory

\* No continuation of a handler waits in the microtask queue. When
\* checkPasswordBreach settles, the handler's continuation after the await at
\* line 227 is a microtask: it runs before the event loop takes the next task,
\* that is before another request is received or another answer of the
\* provider is delivered.
Settled == \A r \in Reqs : pc[r] # "resume"

\* a faulty Receive: the type of the password is not tested, and what is not a
\* string is handled like the empty password
ReceiveUnchecked(r, q, db, limit) ==
  /\ Settled
  /\ pc[r] \in {"idle", "done"}
  /\ served < limit
  /\ served' = served + 1
  /\ req' = [req EXCEPT ![r] = q]
  /\ IF Len(q.password) = 0
     THEN /\ breachInfo' = [breachInfo EXCEPT ![r] = NotBreached]
          /\ fetchUrl' = [fetchUrl EXCEPT ![r] = <<>>]
          /\ Finish(r, q, AnalysisOf[q.password], db,
                    [NoTrace EXCEPT !.analysed = TRUE])
     ELSE IF CacheFresh(breachCache, q.password, now)
     THEN /\ pc' = [pc EXCEPT ![r] = "resume"]
          /\ analysis' = [analysis EXCEPT ![r] = AnalysisOf[q.password]]
          /\ breachInfo' = [breachInfo EXCEPT ![r] =
               [isBreached |-> breachCache[q.password].isBreached,
                count |-> breachCache[q.password].count]]
          /\ fetchUrl' = [fetchUrl EXCEPT ![r] = <<>>]
          /\ trace' = [trace EXCEPT ![r] =
               [NoTrace EXCEPT !.analysed = TRUE, !.lookup = "hit",
                                !.entry = breachCache[q.password]]]
          /\ res' = [res EXCEPT ![r] = NoResponse]
          /\ UNCHANGED <<passwordChecks, passwordHistory>>
     ELSE /\ pc' = [pc EXCEPT ![r] = "fetch"]
          /\ analysis' = [analysis EXCEPT ![r] = AnalysisOf[q.password]]
          /\ breachInfo' = [breachInfo EXCEPT ![r] = NotBreached]
          /\ fetchUrl' = [fetchUrl EXCEPT ![r] = PrefixOf[q.password]]
          /\ trace' = [trace EXCEPT ![r] =
               [NoTrace EXCEPT !.analysed = TRUE, !.lookup = "miss", !.fetches = 1]]
          /\ res' = [res EXCEPT ![r] = NoResponse]
          /\ UNCHANGED <<passwordChecks, passwordHistory>>
  /\ UNCHANGED <<now, ticks, breachCache>>
  /\ UNCHANGED others

\* A request arrives. The handler runs to its first await: it rejects a password
\* that is no string, analyses it, and for a non-empty one enters
\* checkPasswordBreach, which answers from a fresh cache entry or sends the
\* provider the prefix. An empty password is finished in the same step.
Receive(r, q, db, limit) ==
  /\ Settled
  /\ pc[r] \in {"idle", "done"}
  /\ served < limit
  /\ served' = served + 1
  /\ req' = [req EXCEPT ![r] = q]
  /\ IF q.typeofPassword # "string"
     THEN /\ pc' = [pc EXCEPT ![r] = "done"]
          /\ res' = [res EXCEPT ![r] =
                       [status |-> 400, body |-> [error |-> "Password must be a string"]]]
          /\ analysis' = [analysis EXCEPT ![r] = EmptyAnalysis]
          /\ breachInfo' = [breachInfo EXCEPT ![r] = NotBreached]
          /\ fetchUrl' = [fetchUrl EXCEPT ![r] = <<>>]
          /\ trace' = [trace EXCEPT ![r] = NoTrace]
          /\ UNCHANGED <<passwordChecks, passwordHistory>>
     ELSE IF Len(q.password) = 0
     THEN /\ breachInfo' = [breachInfo EXCEPT ![r] = NotBreached]
          /\ fetchUrl' = [fetchUrl EXCEPT ![r] = <<>>]
          /\ Finish(r, q, AnalysisOf[q.password], db,
                    [NoTrace EXCEPT !.analysed = TRUE])
     ELSE IF CacheFresh(breachCache, q.password, now)
     THEN /\ pc' = [pc EXCEPT ![r] = "resume"]
          /\ analysis' = [analysis EXCEPT ![r] = AnalysisOf[q.password]]
          /\ breachInfo' = [breachInfo EXCEPT ![r] =
               [isBreached |-> breachCache[q.password].isBreached,
                count |-> breachCache[q.password].count]]
          /\ fetchUrl' = [fetchUrl EXCEPT ![r] = <<>>]
          /\ trace' = [trace EXCEPT ![r] =
               [NoTrace EXCEPT !.analysed = TRUE, !.lookup = "hit",
                                !.entry = breachCache[q.password]]]
          /\ res' = [res EXCEPT ![r] = NoResponse]
          /\ UNCHANGED <<passwordChecks, passwordHistory>>
     ELSE /\ pc' = [pc EXCEPT ![r] = "fetch"]
          /\ analysis' = [analysis EXCEPT ![r] = AnalysisOf[q.password]]
          /\ breachInfo' = [breachInfo EXCEPT ![r] = NotBreached]
          /\ fetchUrl' = [fetchUrl EXCEPT ![r] = PrefixOf[q.password]]
          /\ trace' = [trace EXCEPT ![r] =
               [NoTrace EXCEPT !.analysed = TRUE, !.lookup = "miss", !.fetches = 1]]
          /\ res' = [res EXCEPT ![r] = NoResponse]
          /\ UNCHANGED <<passwordChecks, passwordHistory>>
  /\ UNCHANGED <<now, ticks, breachCache>>
  /\ UNCHANGED others

\* a faulty Fallback: the not-breached fallback is stored like a result
FallbackCached(r, why) ==
  /\ pc' = [pc EXCEPT ![r] = "resume"]
  /\ breachInfo' = [breachInfo EXCEPT ![r] = NotBreached]
  /\ trace' = [trace EXCEPT ![r].outcome = why]
  /\ breachCache' = CacheSet(breachCache, req[r].password,
       [isBreached |-> FALSE, count |-> Num(0), timestamp |-> now])

\* the catch of checkPasswordBreach: the fallback, nothing cached
Fallback(r, why) ==
  /\ pc' = [pc EXCEPT ![r] = "resume"]
  /\ breachInfo' = [breachInfo EXCEPT ![r] = NotBreached]
  /\ trace' = [trace EXCEPT ![r].outcome = why]
  /\ UNCHANGED breachCache

\* fetch rejects (a network error)
FetchReject(r) ==
  /\ Settled
  /\ pc[r] = "fetch"
  /\ Fallback(r, "network")
  /\ UNCHANGED <<now, ticks, served, req, analysis, fetchUrl, res,
                 passwordChecks, passwordHistory>>
  /\ UNCHANGED others

\* fetch resolves: a response that is not ok throws, an ok one is read
FetchResolve(r, ok) ==
  /\ Settled
  /\ pc[r] = "fetch"
  /\ IF ok
     THEN /\ pc' = [pc EXCEPT ![r] = "text"]
          /\ UNCHANGED <<breachInfo, trace, breachCache>>
     ELSE Fallback(r, "status")
  /\ UNCHANGED <<now, ticks, served, req, analysis, fetchUrl, res,
                 passwordChecks, passwordHistory>>
  /\ UNCHANGED others

\* response.text() rejects (the body cannot be read)
TextReject(r) ==
  /\ Settled
  /\ pc[r] = "text"
  /\ Fallback(r, "body")
  /\ UNCHANGED <<now, ticks, served, req, analysis, fetchUrl, res,
                 passwordChecks, passwordHistory>>
  /\ UNCHANGED others

\* response.text() resolves with the body: scan it, cache and return the result
TextResolve(r, data) ==
  /\ Settled
  /\ pc[r] = "text"
  /\ LET scan == ScanOf[req[r].password][data]
     IN  IF scan.threw
         THEN Fallback(r, "parse")
         ELSE /\ pc' = [pc EXCEPT ![r] = "resume"]
              /\ breachInfo' = [breachInfo EXCEPT ![r] = scan.result]
              /\ breachCache' = CacheSet(breachCache, req[r].password,
                   [isBreached |-> scan.result.isBreached,
                    count |-> scan.result.count,
                    timestamp |-> now])
              /\ trace' = [trace EXCEPT ![r].outcome =
                   IF scan.result.isBreached THEN "found" ELSE "absent"]
  /\ UNCHANGED <<now, ticks, served, req, analysis, fetchUrl, res,
                 passwordChecks, passwordHistory>>
  /\ UNCHANGED others

\* a faulty Resume: the breach step is run twice on the analysis object
ResumeTwice(r, db) ==
  /\ pc[r] = "resume"
  /\ Finish(r, req[r],
            ApplyBreach(ApplyBreach(analysis[r], breachInfo[r]), breachInfo[r]),
            db, trace[r])
  /\ UNCHANGED <<now, ticks, served, breachCache, req, breachInfo, fetchUrl>>
  /\ UNCHANGED others

\* the handler resumes after await checkPasswordBreach(password)
Resume(r, db) ==
  /\ pc[r] = "resume"
  /\ Finish(r, req[r], ApplyBreach(analysis[r], breachInfo[r]), db, trace[r])
  /\ UNCHANGED <<now, ticks, served, breachCache, req, breachInfo, fetchUrl>>
  /\ UNCHANGED others

\* time passes
Tick(d) ==
  /\ ticks < MaxTicks
  /\ ticks' = ticks + 1
  /\ now' = now + d
  /\ UNCHANGED <<served, breachCache, pc, req, analysis, breachInfo, fetchUrl,
                 res, passwordChecks, passwordHistory, trace>>
  /\ UNCHANGED others

(***************************************************************************)
(* Spec: concurrent requests of anonymous callers, the clock advancing     *)
(***************************************************************************)
ProtocolRequests == Requests(ProtocolPasswords, {Undefined}, {FALSE})

Next ==
  \/ \E r \in Reqs, q \in ProtocolRequests : Receive(r, q, "ok", MaxRequests)
  \/ \E r \in Reqs : FetchReject(r)
  \/ \E r \in Reqs, ok \in BOOLEAN : FetchResolve(r, ok)
  \/ \E r \in Reqs : TextReject(r)
  \/ \E r \in Reqs : \E data \in ProtocolBodiesOf[req[r].password] : TextResolve(r, data)
  \/ \E r \in Reqs : Resume(r, "ok")
  \/ \E d \in TickSteps : Tick(d)

Spec == Init /\ [][Next]_vars

(***************************************************************************)
(* SpecInputs: one request followed alone, over every input                *)
(***************************************************************************)
InputRequests ==
  Requests(Passwords, Callers, BOOLEAN) \cup NonStringRequests(Callers, BOOLEAN)

NextInputs ==
  \/ \E q \in InputRequests, db \in DbOutcomes : Receive(1, q, db, 1)
  \/ FetchReject(1)
  \/ \E ok \in BOOLEAN : FetchResolve(1, ok)
  \/ TextReject(1)
  \/ \E data \in BodiesOf[req[1].password] : TextResolve(1, data)
  \/ \E db \in DbOutcomes : Resume(1, db)

SpecInputs == Init /\ [][NextInputs]_vars

(***************************************************************************)
(* SpecPairs: two requests one after the other, over passwords of every    *)
(* tier, so that two results can be compared                               *)
(***************************************************************************)
PairRequests ==
  Requests(PairPasswords, {Undefined}, {FALSE})
    \cup NonStringRequests({Undefined}, {FALSE})

NextPairs ==
  \/ \E q \in PairRequests : Receive(1, q, "ok", 1)
  \/ \E q \in PairRequests : pc[1] = "done" /\ Receive(2, q, "ok", 2)
  \/ \E r \in Reqs : FetchReject(r)
  \/ \E r \in Reqs, ok \in BOOLEAN : FetchResolve(r, ok)
  \/ \E r \in Reqs : TextReject(r)
  \/ \E r \in Reqs : \E data \in BodiesOf[req[r].password] : TextResolve(r, data)
  \/ \E r \in Reqs : Resume(r, "ok")

SpecPairs == Init /\ [][NextPairs]_vars

(***************************************************************************)
(* SpecCallers: two requests one after the other, by every kind of caller, *)
(* so that the answers to different callers can be compared                *)
(***************************************************************************)
CallerRequests ==
  Requests({<<"a","b","c","1">>, <<>>}, Callers, BOOLEAN)

NextCallers ==
  \/ \E q \in CallerRequests, db \in DbOutcomes : Receive(1, q, db, 1)
  \/ \E q \in CallerRequests, db \in DbOutcomes :
       pc[1] = "done" /\ Receive(2, q, db, 2)
  \/ \E r \in Reqs : FetchReject(r)
  \/ \E r \in Reqs, ok \in BOOLEAN : FetchResolve(r, ok)
  \/ \E r \in Reqs : TextReject(r)
  \/ \E r \in Reqs :
       \E data \in ProtocolBodiesOf[req[r].password] : TextResolve(r, data)
  \/ \E r \in Reqs, db \in DbOutcomes : Resume(r, db)

SpecCallers == Init /\ [][NextCallers]_vars

(***************************************************************************)
(* SpecHistory: a user saves a password to the history more often than     *)
(* getByUser returns rows, and another user saves one in between           *)
(***************************************************************************)
HistoryRequests(u) ==
  Requests({<<"a","b","c","1">>}, {Some([id |-> u])}, {TRUE})

NextHistory ==
  \/ \E q \in HistoryRequests("u1") : Receive(1, q, "ok", MaxSaves + 1)
  \/ \E q \in HistoryRequests("u2") :
       /\ \A i \in 1..Len(passwordHistory) : passwordHistory[i].user_id # "u2"
       /\ Receive(1, q, "ok", MaxSaves + 1)
  \/ FetchResolve(1, TRUE)
  \/ \E data \in ProtocolBodiesOf[req[1].password] : TextResolve(1, data)
  \/ Resume(1, "ok")
  \/ \E d \in TickSteps : Tick(d)

SpecHistory == Init /\ [][NextHistory]_vars

(***************************************************************************)
(* SpecScan: the scan of checkPasswordBreach applied to a successful       *)
(* answer of the provider, given line by line                              *)
(***************************************************************************)
ScanLists(p) ==
  UNION {[1..n -> ProviderLines(SuffixOf[p], OwnTails) \cup {<<>>, <<":","5">>}] :
           n \in 0..MaxLines}
ScanInputs ==
  UNION {{[password |-> p, lines |-> ls] : ls \in ScanLists(p)} :
           p \in ProtocolPasswords}

InitScan ==
  /\ EndpointInit
  /\ AccountsInit
  /\ PageInit
  /\ input \in ScanInputs
  /\ output = <<>>

\* lines 193-207 on the text of the response
ApplyScan ==
  /\ output = <<>>
  /\ output' = <<ParseRange(Join(input.lines), SuffixOf[input.password])>>
  /\ UNCHANGED <<now, ticks, served, breachCache, pc, req, analysis, breachInfo,
                 fetchUrl, res, passwordChecks, passwordHistory, trace,
                 input, users, loginAttempts, reply, page>>

SpecScan == InitScan /\ [][ApplyScan]_vars

(***************************************************************************)
(* SpecCrack: the display of calculateCrackTime for two values of seconds  *)
(***************************************************************************)
\* the thresholds in seconds, as 10 * tens + ones
CrackThresholds == <<
  <<0, 1>>, <<6, 0>>, <<360, 0>>, <<8640, 0>>, <<262974, 6>>, <<3155695, 2>>,
  <<31556952, 0>>, <<315569520, 0>> >>
\* one half second less, one more
WidePred(a) == IF a.d > 0 THEN Wide(a.t, a.d - 1) ELSE Wide(a.t - 1, 19)
WideSucc(a) == IF a.d < 19 THEN Wide(a.t, a.d + 1) ELSE Wide(a.t + 1, 0)
\* one and a half times T seconds, in half seconds: 3 * (10 * tens + ones)
Midway(tens, ones) ==
  LET d == 10 * (tens % 2) + 3 * ones
  IN  Wide(tens + tens \div 2 + d \div 20, d % 20)
\* seconds around every threshold (half a second below, on it, half a second
\* above), around one and a half times it, nothing, and some thousand years
CrackSeconds ==
  UNION {{WidePred(HalfSeconds(th[1], th[2])), HalfSeconds(th[1], th[2]),
          WideSucc(HalfSeconds(th[1], th[2])),
          WidePred(Midway(th[1], th[2])), Midway(th[1], th[2])} :
         th \in {CrackThresholds[i] : i \in 1..Len(CrackThresholds)}}
    \cup {Wide(0, 0), Wide(2000000000, 0)}

InitCrack ==
  /\ EndpointInit
  /\ AccountsInit
  /\ PageInit
  /\ input \in CrackSeconds \X CrackSeconds
  /\ output = <<>>

\* lines 44-52 applied to both values
ApplyCrack ==
  /\ output = <<>>
  /\ output' = <<CrackTimeOf(input[1]), CrackTimeOf(input[2])>>
  /\ UNCHANGED <<now, ticks, served, breachCache, pc, req, analysis, breachInfo,
                 fetchUrl, res, passwordChecks, passwordHistory, trace,
                 input, users, loginAttempts, reply, page>>

SpecCrack == InitCrack /\ [][ApplyCrack]_vars

(***************************************************************************)
(* FairInputs: SpecInputs with the fairness the runtime gives. Once        *)
(* checkPasswordBreach has settled, the event loop runs the handler's      *)
(* continuation. Nothing makes the provider answer: fetch is called        *)
(* without a signal or a timeout, so its steps carry no fairness.          *)
(***************************************************************************)
FairInputs == SpecInputs /\ WF_vars(\E db \in DbOutcomes : Resume(1, db))

(***************************************************************************)
(* Properties                                                              *)
(***************************************************************************)
\* the six-level and the two-level mapping as the thresholds state them
TierByScore(score) ==
  CASE score >= 90 -> "Very Strong"
    [] score >= 75 /\ score < 90 -> "Strong"
    [] score >= 60 /\ score < 75 -> "Good"
    [] score >= 40 /\ score < 60 -> "Fair"
    [] score >= 20 /\ score < 40 -> "Weak"
    [] score < 20 -> "Very Weak"
TierWhenBreached(score) == IF score >= 25 THEN "Weak" ELSE "Very Weak"

\* C1: every analysis result the endpoint returns has an integer score in
\* 0..100, and its strength is the tier of that score: by the two-level mapping
\* (25 and above Weak, below Very Weak) when the result is marked breached, by
\* the six-level thresholds 90/75/60/40/20 otherwise.
C1_ScoreAndTier ==
  \A r \in Reqs :
    res[r].status = 200 =>
      LET b == res[r].body
      IN  /\ b.score \in 0..100
          /\ b.strength = IF b.isBreached = Some(TRUE)
                          THEN TierWhenBreached(b.score)
                          ELSE TierByScore(b.score)

\* C1 happens: a password whose credits sum to more than 100 is found by the
\* provider and answered with score 30, Weak
C1_Witness ==
  /\ pc[1] = "done"
  /\ res[1].status = 200
  /\ RawScore(req[1].password) > 100
  /\ trace[1].outcome \in {"found", "absent"}
  /\ res[1].body.isBreached = Some(TRUE)
  /\ res[1].body.score = 30
  /\ res[1].body.strength = "Weak"

\* C2: a result whose lookup reported the password breached, from the provider
\* or from the cache, has score at most 30 and strength Weak or Very Weak,
\* whatever the score before the lookup was.
C2_BreachCap ==
  \A r \in Reqs :
    (pc[r] = "done" /\ res[r].status = 200 /\ breachInfo[r].isBreached) =>
      /\ res[r].body.isBreached = Some(TRUE)
      /\ res[r].body.score <= 30
      /\ res[r].body.strength \in {"Weak", "Very Weak"}

\* C2 happens: a password that scores above 30 before the lookup is answered
\* with score 30 once from the provider and then from the cache
C2_Witness ==
  /\ pc[1] = "done" /\ pc[2] = "done"
  /\ req[1].password = req[2].password
  /\ AnalysisOf[req[1].password].score >= 75
  /\ trace[1].lookup = "miss" /\ trace[1].outcome = "found"
  /\ trace[2].lookup = "hit" /\ breachInfo[2].isBreached
  /\ res[1].body.score = 30 /\ res[2].body.score = 30

\* the provider failed during the lookup of request r: a network error, a
\* status that is not ok, a body that cannot be read, or a matching line whose
\* count cannot be parsed (no count at all, or one parseInt makes NaN of)
ProviderFailed(r) ==
  \/ trace[r].outcome \in {"network", "status", "body", "parse"}
  \/ trace[r].outcome = "found" /\ breachInfo[r].count.nan

\* C3: when the provider fails during a lookup, checkPasswordBreach has sent
\* one provider request and no second one and returns {isBreached: false,
\* count: 0}, and the request is answered 200 with a complete result carrying
\* isBreached = false and breachCount = 0 (unless the database throws).
C3_FailureFallsBack ==
  \A r \in Reqs :
    ProviderFailed(r) =>
      /\ trace[r].fetches = 1
      /\ breachInfo[r] = [isBreached |-> FALSE, count |-> Num(0)]
      /\ (pc[r] = "done" /\ ~trace[r].dbThrew) =>
           /\ res[r].status = 200
           /\ res[r].body.isBreached = Some(FALSE)
           /\ res[r].body.breachCount = Some(Num(0))
           /\ res[r].body.score = AnalysisOf[req[r].password].score
           /\ res[r].body.suggestions = AnalysisOf[req[r].password].suggestions

\* C4: a request whose password is the empty string is answered at once with
\* the fixed result (score 0, Very Weak, entropy 0, Instantly, the single
\* suggestion "Enter a password to get started", all six checks false, neither
\* isBreached nor breachCount set); no provider request is sent for it and the
\* breach cache is neither read nor written.
C4_EmptyPassword ==
  [][\A r \in Reqs :
       (pc'[r] # pc[r] /\ served' # served
          /\ req'[r].typeofPassword = "string" /\ Len(req'[r].password) = 0) =>
         /\ pc'[r] = "done"
         /\ breachCache' = breachCache
         /\ trace'[r].lookup = "none"
         /\ trace'[r].fetches = 0
         /\ fetchUrl'[r] = <<>>
         /\ res'[r].status = 200
         /\ res'[r].body.score = 0
         /\ res'[r].body.strength = "Very Weak"
         /\ res'[r].body.entropy = 0
         /\ res'[r].body.crackTime = "Instantly"
         /\ res'[r].body.timeToCrack.display = "Instantly"
         /\ res'[r].body.suggestions = <<"Enter a password to get started">>
         /\ \A c \in {"hasLength", "hasUppercase", "hasLowercase", "hasNumbers",
                       "hasSpecialChars", "isCommon"} : ~res'[r].body.checks[c]
         /\ res'[r].body.isBreached = Undefined
         /\ res'[r].body.breachCount = Undefined]_vars

\* C4 happens: the empty password is answered while the cache holds an entry
C4_Witness ==
  /\ pc[2] = "done"
  /\ req[2].typeofPassword = "string" /\ Len(req[2].password) = 0
  /\ res[2].status = 200
  /\ res[2].body.suggestions = <<"Enter a password to get started">>
  /\ DOMAIN breachCache # {}
  /\ trace[2].fetches = 0

\* C5: a request that has asked the provider is eventually answered.
C5_EventuallyAnswered ==
  \A r \in Reqs : (pc[r] \in {"fetch", "text"}) ~> (pc[r] = "done")

\* the first five characters of the uppercase SHA-1 hex digest of each password
DigestHeadOf == [p \in AllPasswords |-> SubSeq(toUpperCase(sha1Hex(p)), 1, 5)]

\* C6: what a provider request carries of the password is the first 5
\* characters of the uppercase SHA-1 hex digest and nothing more, so requests
\* for two passwords whose digests share that prefix are the same request.
C6_OnlyPrefixSent ==
  \A r \in Reqs :
    trace[r].fetches > 0 =>
      /\ trace[r].fetches = 1
      /\ Len(fetchUrl[r]) = 5
      /\ fetchUrl[r] = DigestHeadOf[req[r].password]
      /\ \A r2 \in Reqs :
           (trace[r2].fetches > 0
              /\ DigestHeadOf[req[r2].password] = DigestHeadOf[req[r].password]) =>
             fetchUrl[r2] = fetchUrl[r]

\* C6 happens: two different passwords are being looked up with one and the
\* same provider request
C6_Witness ==
  /\ pc[1] = "fetch" /\ pc[2] = "fetch"
  /\ req[1].password # req[2].password
  /\ Len(fetchUrl[1]) = 5
  /\ fetchUrl[1] = fetchUrl[2]

\* C7: checkPasswordBreach looks into the cache first. An entry for the
\* password younger than 3,600,000 ms is returned as it is, no provider request
\* is sent and the cache stays as it was; with no entry, or one aged 3,600,000
\* ms or more, the provider is asked.
C7_CacheFirst ==
  [][\A r \in Reqs :
       (pc[r] \in {"idle", "done"} /\ pc'[r] \in {"resume", "fetch"}) =>
         LET p == req'[r].password
         IN  IF p \in DOMAIN breachCache
                /\ now - breachCache[p].timestamp < 3600000
             THEN /\ pc'[r] = "resume"
                  /\ breachInfo'[r].isBreached = breachCache[p].isBreached
                  /\ breachInfo'[r].count = breachCache[p].count
                  /\ trace'[r].fetches = 0
                  /\ fetchUrl'[r] = <<>>
                  /\ breachCache' = breachCache
             ELSE /\ pc'[r] = "fetch"
                  /\ trace'[r].fetches = 1
                  /\ breachCache' = breachCache]_vars

\* C7 happens: a request is answered from an entry one millisecond short of an
\* hour old
C7_Witness ==
  \E r \in Reqs :
    /\ pc[r] = "done"
    /\ trace[r].lookup = "hit"
    /\ trace[r].fetches = 0
    /\ now - trace[r].entry.timestamp = 3599999
    /\ res[r].body.isBreached = Some(trace[r].entry.isBreached)

Verdict(b) == <<b.score, b.strength, b.isBreached, b.breachCount>>
\* the fields that are computed from the password alone
Estimate(b) == <<b.entropy, b.crackTime, b.timeToCrack>>
\* two requests for one non-empty password, both answered with a result
SamePasswordAnswered(r1, r2) ==
  /\ pc[r1] = "done" /\ pc[r2] = "done"
  /\ res[r1].status = 200 /\ res[r2].status = 200
  /\ req[r1].password = req[r2].password
  /\ Len(req[r1].password) > 0

TierRank(strength) ==
  CASE strength = "Very Weak" -> 0
    [] strength = "Weak" -> 1
    [] strength = "Fair" -> 2
    [] strength = "Good" -> 3
    [] strength = "Strong" -> 4
    [] strength = "Very Strong" -> 5
\* two requests, both answered with a result
BothAnswered(r1, r2) ==
  /\ pc[r1] = "done" /\ pc[r2] = "done"
  /\ res[r1].status = 200 /\ res[r2].status = 200
\* between two results: the same score has the same tier, a higher score no
\* lower tier
TierFollowsScore(b1, b2) ==
  /\ b1.score = b2.score => b1.strength = b2.strength
  /\ b1.score > b2.score => TierRank(b1.strength) >= TierRank(b2.strength)
MarkedBreached(b) == b.isBreached = Some(TRUE)

\* C10 as stated: across all results, breached or not, two results with the
\* same score have the same tier and a result with a higher score never has a
\* lower tier.
C10_TierFollowsScore ==
  \A r1, r2 \in Reqs :
    BothAnswered(r1, r2) => TierFollowsScore(res[r1].body, res[r2].body)

\* C10 amended: among the results not marked breached, and among the results
\* marked breached, two results with the same score have the same tier and a
\* result with a higher score never has a lower tier.
C10_TierFollowsScorePerStatus ==
  \A r1, r2 \in Reqs :
    (BothAnswered(r1, r2)
       /\ MarkedBreached(res[r1].body) = MarkedBreached(res[r2].body)) =>
      TierFollowsScore(res[r1].body, res[r2].body)

\* C10 happens: two results marked breached, the higher score in the higher
\* tier
C10_Witness ==
  /\ BothAnswered(1, 2)
  /\ MarkedBreached(res[1].body) /\ MarkedBreached(res[2].body)
  /\ res[1].body.score > res[2].body.score
  /\ TierRank(res[1].body.strength) > TierRank(res[2].body.strength)

\* C11: within a request the analysis object changes twice at most: when
\* analyzePassword returns, and in the one step after checkPasswordBreach has
\* returned, which sets the breach fields, makes the score min(score, 30) when
\* the lookup said breached and leaves score, strength, color and suggestions
\* alone otherwise; what is then logged and sent is that final object.
C11_CapOnce ==
  [][\A r \in Reqs :
       /\ pc[r] \in {"fetch", "text", "resume"} =>
            /\ analysis[r].isBreached = Undefined
            /\ analysis[r].breachCount = Undefined
       /\ analysis'[r] # analysis[r] =>
            \/ pc[r] \in {"idle", "done"} /\ served' = served + 1
            \/ pc[r] = "resume" /\ pc'[r] = "done"
       /\ (pc[r] = "resume" /\ pc'[r] = "done") =>
            LET a == analysis[r]
                b == analysis'[r]
            IN  /\ b.isBreached = Some(breachInfo[r].isBreached)
                /\ IF breachInfo[r].isBreached
                   THEN /\ b.score = IF a.score <= 30 THEN a.score ELSE 30
                        /\ Len(b.suggestions) = Len(a.suggestions) + 1
                        /\ Tail(b.suggestions) = a.suggestions
                   ELSE /\ b.score = a.score
                        /\ b.strength = a.strength
                        /\ b.color = a.color
                        /\ b.suggestions = a.suggestions
                /\ res'[r].status = 200 => res'[r].body = b
                /\ passwordChecks' # passwordChecks =>
                     /\ Len(passwordChecks') = Len(passwordChecks) + 1
                     /\ passwordChecks'[Len(passwordChecks')].strength_score = b.score
                     /\ passwordChecks'[Len(passwordChecks')].strength_level = b.strength]_vars

\* C11 happens: one result keeps the score 100 of a password not found, the
\* other keeps the score 20 of a password found, which is below the cap, and
\* has the warning in front and the tier of the breach step
C11_Witness ==
  \E r1, r2 \in Reqs :
    /\ pc[r1] = "done" /\ pc[r2] = "done"
    /\ trace[r1].outcome = "absent"
    /\ res[r1].body.score = 100
    /\ res[r1].body.suggestions = AnalysisOf[req[r1].password].suggestions
    /\ trace[r2].outcome = "found"
    /\ AnalysisOf[req[r2].password].score = 20
    /\ res[r2].body.score = 20
    /\ res[r2].body.strength = "Very Weak"
    /\ Tail(res[r2].body.suggestions) = AnalysisOf[req[r2].password].suggestions

\* the terms of the score as the scoring rule words them: a character three
\* or more times in a row, three digits in a row that follow one another in
\* the order 0 1 2 3 4 5 6 7 8 9 0, three letters in a row that follow one
\* another in the alphabet whatever their case
RepeatsThrice(password) ==
  \E i \in 1..Len(password) - 2 :
    password[i] = password[i + 1] /\ password[i + 1] = password[i + 2]
DigitRow == <<"0","1","2","3","4","5","6","7","8","9","0">>
DigitRun(password) ==
  \E i \in 1..Len(password) - 2 : \E k \in 1..9 :
    SubSeq(password, i, i + 2) = SubSeq(DigitRow, k, k + 2)
LetterRun(password) ==
  \E i \in 1..Len(password) - 2 : \E k \in 1..24 :
    toLowerCase(SubSeq(password, i, i + 2)) = SubSeq(LowerChars, k, k + 2)
Credit(cond, points) == IF cond THEN points ELSE 0
ScoreSum(password, repeats) ==
  Credit(Len(password) >= 8, 20) + Credit(Len(password) >= 12, 10)
    + Credit(Len(password) >= 16, 10) + Credit(Len(password) >= 20, 5)
    + Credit(\E i \in 1..Len(password) : password[i] \in LowerSet, 15)
    + Credit(\E i \in 1..Len(password) : password[i] \in UpperSet, 15)
    + Credit(\E i \in 1..Len(password) : password[i] \in DigitSet, 15)
    + Credit(\E i \in 1..Len(password) : password[i] \in SpecialChars, 20)
    + Credit(calculateEntropy(password) > 40 * Micro, 5)
    + Credit(calculateEntropy(password) > 60 * Micro, 10)
    + Credit(calculateEntropy(password) > 80 * Micro, 10)
    - Credit(toLowerCase(password) \in COMMON_PASSWORDS, 40)
    - Credit(repeats, 10)
    - Credit(DigitRun(password), 10)
    - Credit(LetterRun(password), 10)
Clamp(s) == IF s < 0 THEN 0 ELSE IF s > 100 THEN 100 ELSE s
\* the handler holds the object analyzePassword returned for a non-empty
\* password, the breach fields not yet set
Analysed(r) ==
  pc[r] \in {"fetch", "text", "resume"} /\ Len(req[r].password) > 0

\* C12: for every non-empty password the score analyzePassword computes is the
\* sum of the length, class and entropy credits less 40 for a denylist entry
\* and less 10 each for a character three times in a row, a run of three
\* digits and a run of three letters, clamped to 0..100.
C12_ScoreFormula ==
  \A r \in Reqs :
    Analysed(r) =>
      analysis[r].score =
        Clamp(ScoreSum(req[r].password, RepeatsThrice(req[r].password)))

\* a password of 16 characters or more with a letter of each case, a digit and
\* a symbol, no denylist entry, and none of the three penalties
StrongShape(password) ==
  /\ Len(password) >= 16
  /\ \E i \in 1..Len(password) : password[i] \in LowerSet
  /\ \E i \in 1..Len(password) : password[i] \in UpperSet
  /\ \E i \in 1..Len(password) : password[i] \in DigitSet
  /\ \E i \in 1..Len(password) : password[i] \in SpecialChars
  /\ toLowerCase(password) \notin COMMON_PASSWORDS
  /\ ~RepeatsThrice(password)
  /\ ~DigitRun(password)
  /\ ~LetterRun(password)

\* C13: a password of 16 characters or more that has a lowercase letter, an
\* uppercase letter, a digit and a symbol, is no denylist entry and has none of
\* the three penalties is scored 75 or more by analyzePassword, Strong or Very
\* Strong.
C13_StrongShape ==
  \A r \in Reqs :
    (Analysed(r) /\ StrongShape(req[r].password)) =>
      /\ analysis[r].score >= 75
      /\ analysis[r].strength \in {"Strong", "Very Strong"}

\* C13 happens: such a password of exactly 16 characters has been analysed
C13_Witness ==
  /\ Analysed(1)
  /\ StrongShape(req[1].password)
  /\ Len(req[1].password) = 16
  /\ analysis[1].score >= 75

\* the remediation strings in their fixed order
Remediations == <<
  "Use at least 8 characters",
  "Add uppercase letters (A-Z)",
  "Add lowercase letters (a-z)",
  "Include numbers (0-9)",
  "Add special characters (!@#$%^&*)",
  "Consider using 12+ characters for better security",
  "Avoid common passwords",
  "Avoid repeating characters",
  "Avoid sequential numbers" >>
Affirmative == "Excellent! Your password meets all security criteria"
\* whether the k-th remediation applies to a password; the repeat is the one
\* the scorer tests
Applies(password, k) ==
  CASE k = 1 -> Len(password) < 8
    [] k = 2 -> ~\E i \in 1..Len(password) : password[i] \in UpperSet
    [] k = 3 -> ~\E i \in 1..Len(password) : password[i] \in LowerSet
    [] k = 4 -> ~\E i \in 1..Len(password) : password[i] \in DigitSet
    [] k = 5 -> ~\E i \in 1..Len(password) : password[i] \in SpecialChars
    [] k = 6 -> Len(password) < 12
    [] k = 7 -> toLowerCase(password) \in COMMON_PASSWORDS
    [] k = 8 -> HasRepeat(password)
    [] k = 9 -> DigitRun(password)
\* the remediations that apply, in the fixed order
RECURSIVE Applying(_, _)
Applying(password, k) ==
  IF k > Len(Remediations) THEN <<>>
  ELSE (IF Applies(password, k) THEN <<Remediations[k]>> ELSE <<>>)
         \o Applying(password, k + 1)
\* a request for a non-empty password answered with a result
Answered(r) ==
  pc[r] = "done" /\ res[r].status = 200 /\ Len(req[r].password) > 0

NeedsRemedy(password) ==
  \E k \in 1..Len(Remediations) : Applies(password, k)
\* analyzePassword has returned and the handler has not touched the result: it
\* waits for the lookup, or the password is empty and there is no lookup
JustAnalysed(r) ==
  \/ pc[r] \in {"fetch", "text", "resume"}
  \/ pc[r] = "done" /\ trace[r].analysed /\ Len(req[r].password) = 0

C16_RejectedBeforeCore ==
  [][\A r \in Reqs :
       (served' # served /\ pc'[r] # pc[r]
          /\ req'[r].typeofPassword # "string") =>
         /\ pc'[r] = "done"
         /\ res'[r].status = 400
         /\ ~trace'[r].analysed
         /\ trace'[r].lookup = "none"
         /\ trace'[r].fetches = 0
         /\ fetchUrl'[r] = <<>>
         /\ breachCache' = breachCache
         /\ passwordChecks' = passwordChecks
         /\ passwordHistory' = passwordHistory]_vars

\* C16 happens: a request without a string password has been rejected while the
\* cache holds an entry and the table a record
C16_Witness ==
  /\ pc[2] = "done"
  /\ req[2].typeofPassword = "undefined"
  /\ res[2].status = 400
  /\ DOMAIN breachCache # {}
  /\ Len(passwordChecks) = 1

\* a response is sent once: when the request ends, and not again
RespondsOnce ==
  [][\A r \in Reqs :
       /\ (pc'[r] # "done") => res'[r] = NoResponse
       /\ (pc[r] = "done" /\ pc'[r] = "done") => res'[r] = res[r]]_vars
\* a field of the result that JSON can carry: res.json writes NaN as null
Populated(field) == field # Undefined /\ field[1] # NaN
\* the result carries every field, and the breach fields for a non-empty password
CompleteResult(body, password) ==
  /\ body.score \in 0..100
  /\ body.strength \in {"Very Weak", "Weak", "Fair", "Good", "Strong", "Very Strong"}
  /\ Len(body.color) > 0
  /\ Len(body.suggestions) > 0
  /\ body.entropy >= 0
  /\ Len(body.crackTime) > 0
  /\ Len(body.timeToCrack.display) > 0
  /\ DOMAIN body.checks = {"hasLength", "hasUppercase", "hasLowercase",
                           "hasNumbers", "hasSpecialChars", "isCommon"}
  /\ Len(password) > 0 =>
       /\ body.isBreached # Undefined
       /\ Populated(body.breachCount)
\* what has been answered is an error or a complete result, and a statement of
\* the database that threw is answered 500
ErrorOrComplete ==
  \A r \in Reqs :
    pc[r] = "done" =>
      /\ \/ res[r].status \in {400, 500}
         \/ res[r].status = 200 /\ CompleteResult(res[r].body, req[r].password)
      /\ trace[r].dbThrew => res[r] = ServerError

\* C17: every request gets exactly one response, an error status (400 or 500)
\* or a complete result; a failure while persisting gives the 500 error.
C17_OneCompleteResponse ==
  /\ RespondsOnce
  /\ []ErrorOrComplete
  /\ \A r \in Reqs : (pc[r] \in {"fetch", "text", "resume"}) ~> (pc[r] = "done")

\* the request has been answered with a result
Returned(r) == pc[r] = "done" /\ res[r].status = 200
\* a column holds the value of a field of the result: true and false as 1 and 0,
\* a field that is not set as 0
SameBreached(column, field) ==
  column = IF field = Some(TRUE) THEN 1 ELSE 0
SameCount(column, field) ==
  IF field = Undefined THEN column = 0 ELSE field[1] = Num(column)
\* the record of a check agrees with the result returned for the password
RecordMatches(row, body, password) ==
  /\ row.password_hash = sha256Hex(password)
  /\ row.password_hash # password
  /\ row.strength_score = body.score
  /\ row.strength_level = body.strength
  /\ row.entropy = body.entropy
  /\ SameBreached(row.is_breached, body.isBreached)
  /\ SameCount(row.breach_count, body.breachCount)

\* C18: a request that returns a result, for the empty password too, has
\* written exactly one password_checks record, which holds a hash of the
\* password and not the password, and the score, strength, entropy, isBreached
\* and breachCount of the returned result.
C18_CheckRecorded ==
  Returned(1) =>
    /\ Len(passwordChecks) = 1
    /\ RecordMatches(passwordChecks[1], res[1].body, req[1].password)

\* the caller asked for the history, is known, and the password is not empty
SavesToHistory(q) ==
  q.saveToHistory /\ q.user # Undefined /\ Len(q.password) > 0
\* the entry of the history is the caller's and agrees with the returned result
EntryMatches(row, body, q) ==
  /\ row.user_id = q.user[1].id
  /\ row.strength_score = body.score
  /\ row.strength_level = body.strength
  /\ row.entropy = body.entropy
  /\ SameBreached(row.is_breached, body.isBreached)
  /\ SameCount(row.breach_count, body.breachCount)

\* C19: a request that returns a result adds an entry to the history exactly
\* when the caller is authenticated, saveToHistory is set and the password is
\* not empty; it is then one entry, of that user, with the values of the final
\* result; in every other case password_history is unchanged.
C19_HistoryEntry ==
  IF Returned(1) /\ SavesToHistory(req[1])
  THEN /\ Len(passwordHistory) = 1
       /\ EntryMatches(passwordHistory[1], res[1].body, req[1])
  ELSE passwordHistory = <<>>

\* the positions in password_history of the rows of a user
OwnRows(userId) ==
  {i \in 1..Len(passwordHistory) : passwordHistory[i].user_id = userId}
\* the rows of a user added last, HistoryLimit of them at most
LastAdded(userId) ==
  {i \in OwnRows(userId) :
     Cardinality({j \in OwnRows(userId) : j > i}) < HistoryLimit}

\* C20: the history of a user holds at most 10 entries, and they are the 10
\* added last.
C20_HistoryCapped ==
  \A u \in Users :
    /\ Cardinality(OwnRows(u)) <= HistoryLimit
    /\ \A S \in getByUser(passwordHistory, u) : S = LastAdded(u)
\* what is stored for a user is never more than 10 rows
StoredCapped ==
  \A u \in Users : Cardinality(OwnRows(u)) <= HistoryLimit
\* what getByUser returns is the 10 rows added last
ReadIsLastAdded ==
  \A u \in Users : \A S \in getByUser(passwordHistory, u) : S = LastAdded(u)
\* what getByUser returns is at most 10 rows of the user, none of them older
\* than a row it leaves out
ReadIsLatest ==
  \A u \in Users :
    /\ getByUser(passwordHistory, u) # {}
    /\ \A S \in getByUser(passwordHistory, u) :
         /\ Cardinality(S) <= HistoryLimit
         /\ \A i \in S : passwordHistory[i].user_id = u
         /\ \A i \in S, j \in OwnRows(u) \ S :
              passwordHistory[i].created_at >= passwordHistory[j].created_at

\* two requests for the same password whose lookups resolved to the same
\* value, that is with the same cache state and provider behaviour
SameLookup(r1, r2) ==
  /\ pc[r1] = "done" /\ pc[r2] = "done"
  /\ req[r1].typeofPassword = "string" /\ req[r2].typeofPassword = "string"
  /\ req[r1].password = req[r2].password
  /\ breachInfo[r1] = breachInfo[r2]
C22_FreshEntryKept ==
  [][\A p \in DOMAIN breachCache :
       /\ p \in DOMAIN breachCache'
       /\ CacheFresh(breachCache, p, now) => breachCache'[p] = breachCache[p]]_vars

\* the part of the line before ':' is the suffix
MatchesSuffix(line, suffix) ==
  \/ line = suffix
  \/ /\ Len(line) > Len(suffix)
     /\ SubSeq(line, 1, Len(suffix)) = suffix
     /\ line[Len(suffix) + 1] = ":"
\* the counts that well-formed lines of the model carry after the suffix
CountOfTail ==
  (<<":","3">> :> 3) @@ (<<":","1","2","3","4","\r">> :> 1234) @@ (<<":","0">> :> 0)
\* the first matching line, 0 if there is none
FirstMatch(lines, suffix) ==
  IF \E i \in 1..Len(lines) : MatchesSuffix(lines[i], suffix)
  THEN CHOOSE i \in 1..Len(lines) :
         /\ MatchesSuffix(lines[i], suffix)
         /\ \A j \in 1..(i - 1) : ~MatchesSuffix(lines[j], suffix)
  ELSE 0

\* C23: on a successful answer the scan returns isBreached = true with the
\* count of the first line whose part before ':' is the suffix, and
\* {isBreached: false, count: 0} when no line has the suffix; the other lines,
\* malformed or not, make no difference.
C23_FirstMatchingLine ==
  output # <<>> =>
    LET suffix == SuffixOf[input.password]
        first == FirstMatch(input.lines, suffix)
        tail == SubSeq(input.lines[first], Len(suffix) + 1, Len(input.lines[first]))
    IN  /\ first = 0 => output[1] = [threw |-> FALSE, result |-> NotBreached]
        /\ (first > 0 /\ tail \in DOMAIN CountOfTail) =>
             output[1] = [threw |-> FALSE,
                          result |-> [isBreached |-> TRUE,
                                      count |-> Num(CountOfTail[tail])]]

\* C23 happens: a malformed line that does not match, then the matching line
\* with its count and a carriage return
C23_Witness ==
  /\ output # <<>>
  /\ Len(input.lines) = 2
  /\ input.lines[1] = OtherSuffix
  /\ input.lines[2] = SuffixOf[input.password] \o <<":","1","2","3","4","\r">>
  /\ output[1].result = [isBreached |-> TRUE, count |-> Num(1234)]

\* the units of the display and the seconds in each, a count 20 * t + d
CrackUnitNames ==
  <<"seconds", "minutes", "hours", "days", "months", "years", "decades">>
CrackUnitSeconds ==
  <<Wide(0, 1), Wide(3, 0), Wide(180, 0), Wide(4320, 0), Wide(131487, 6),
    Wide(1577847, 12), Wide(15778476, 0)>>
\* how many of the thresholds the seconds have reached: the bucket, 0 to 8
BucketOf(x) ==
  Cardinality({i \in 1..Len(CrackThresholds) :
                 ~WideLess(x, HalfSeconds(CrackThresholds[i][1], CrackThresholds[i][2]))})
\* n is seconds divided by the unit, rounded to the nearest whole number
NearestWhole(x, unit, n) ==
  /\ ~WideLess(x, WideTimes(2 * n - 1, unit))
  /\ WideLess(x, WideTimes(2 * n + 1, unit))
\* the display says so many of the unit of its bucket
DisplayedIn(display, x, b) ==
  IF b = 0 THEN display = "Instantly"
  ELSE IF b = 8 THEN display = "Centuries"
  ELSE \E n \in 1..MaxRounded :
         /\ NearestWhole(x, CrackUnitSeconds[b], n)
         /\ display = ToString(n) \o " " \o CrackUnitNames[b]
\* the bucket a display belongs to
BucketShown(display) ==
  IF display = "Instantly" THEN 0
  ELSE IF display = "Centuries" THEN 8
  ELSE CHOOSE b \in 1..7 :
         \E n \in 0..MaxRounded : display = ToString(n) \o " " \o CrackUnitNames[b]

\* C24: calculateCrackTime returns the seconds as they are, with the display of
\* the first threshold the seconds are below and the number of units rounded
\* to the nearest whole; the seconds fall in one bucket, and more seconds never
\* give a smaller unit.
C24_CrackBuckets ==
  output # <<>> =>
    /\ \A i \in 1..2 :
         /\ output[i].seconds = input[i]
         /\ DisplayedIn(output[i].display, input[i], BucketOf(input[i]))
         /\ \A b \in 0..8 :
              DisplayedIn(output[i].display, input[i], b) => b = BucketOf(input[i])
    /\ ~WideLess(input[2], input[1]) =>
         BucketShown(output[1].display) <= BucketShown(output[2].display)

\* C24 happens: 89.5 seconds are "1 minutes", 90 seconds are "2 minutes"
C24_Witness ==
  /\ output # <<>>
  /\ input[1] = Wide(8, 19) /\ output[1].display = "1 minutes"
  /\ input[2] = Wide(9, 0) /\ output[2].display = "2 minutes"

(***************************************************************************)
(* Accounts: handleRegister, handleLogin and the admin handlers            *)
(***************************************************************************)
\* the variables of the analysis endpoint
endpoint == <<now, ticks, served, breachCache, pc, req, analysis, breachInfo,
              fetchUrl, res, passwordChecks, passwordHistory, trace>>

MaxOps == 4          \* requests to the account and admin handlers
MaxAttempts == 3     \* failed attempts from which checkRateLimit rejects
AttemptWindow == 900000  \* minutes * 60 * 1000 with minutes = 15

WeakPassword == <<"a">>
AccountPasswords == {<<>>, AdminPassword, WeakPassword}
AccountEmails ==
  {<<>>, AdminEmail, <<"a","@","b",".","c">>, <<"A","@","b",".","c">>,
   <<"a","b",".","c">>}
\* the JSON texts of the field isActive: two booleans and a number
StatusValues == {"true", "false", "1"}

\* /^[^\\s@]+@[^\\s@]+\\.[^\\s@]+$/.test(s)
emailRegex(s) ==
  \E i \in 2..Len(s), j \in 4..(Len(s) - 1) :
    /\ i + 1 < j
    /\ s[i] = "@"
    /\ s[j] = "."
    /\ \A k \in (1..Len(s)) \ {i} : s[k] \notin WhiteChars \cup {"@"}

\* validatePassword(password).valid: the passwords it accepts
validatePassword(password) == [valid |-> password \in {AdminPassword}]
\* comparePassword(password, hash)
comparePassword(password, hash) == hash = Bcrypt(password)
\* checkRateLimit(attempts): whether another attempt is allowed
checkRateLimit(attempts) == attempts < MaxAttempts
\* generateToken(payload): the token is kept as the payload it carries
generateToken(row) == Some([id |-> row.id, email |-> row.email, role |-> row.role])

\* loginAttemptsDb.log
AttemptRow(email, success, failureReason, at) ==
  [email |-> email, success |-> IF success THEN 1 ELSE 0,
   failure_reason |-> failureReason, created_at |-> at]
\* loginAttemptsDb.getRecentFailedAttempts(email).count
getRecentFailedAttempts(attempts, email, at) ==
  Cardinality({i \in 1..Len(attempts) :
                 /\ attempts[i].email = email
                 /\ attempts[i].success = 0
                 /\ attempts[i].created_at > at - AttemptWindow})

\* userDb.findByEmail, userDb.findById: the positions of the rows selected
findByEmail(table, email) ==
  {i \in 1..Len(table.rows) :
     table.rows[i].email = email /\ table.rows[i].is_active = 1}
findById(table, id) ==
  {i \in 1..Len(table.rows) :
     table.rows[i].id = id /\ table.rows[i].is_active = 1}
\* the UNIQUE constraint on users.email
EmailTaken(table, email) ==
  \E i \in 1..Len(table.rows) : table.rows[i].email = email
\* userDb.create: the n-th identifier made is n
create(table, email, password, at) ==
  [created |-> table.created + 1,
   rows |-> Append(table.rows, UserRow(table.created + 1, email, password, "user", at))]
\* userDb.updateLastLogin, userDb.updateStatus, userDb.delete
updateLastLogin(table, id, at) ==
  [table EXCEPT !.rows = [i \in 1..Len(table.rows) |->
     IF table.rows[i].id = id THEN [table.rows[i] EXCEPT !.last_login = at]
     ELSE table.rows[i]]]
updateStatus(table, id, isActive) ==
  [table EXCEPT !.rows = [i \in 1..Len(table.rows) |->
     IF table.rows[i].id = id
       THEN [table.rows[i] EXCEPT !.is_active = IF isActive THEN 1 ELSE 0]
     ELSE table.rows[i]]]
delete(table, id) ==
  [table EXCEPT !.rows = SelectSeq(table.rows, LAMBDA row : row.id # id)]

\* what a handler answers
Said(handler, args, status, token, found, compared) ==
  [reply EXCEPT !.seq = @ + 1, !.handler = handler, !.args = args,
                !.status = status, !.token = token, !.found = found,
                !.compared = compared]

\* a faulty handleRegister: the email is stored as it was typed
RegisterAsTyped(email, password, confirmPassword) ==
  /\ reply.seq < MaxOps
  /\ LET args == <<email, password, confirmPassword>>
         refuse(status) ==
           /\ reply' = Said("register", args, status, Undefined, FALSE, FALSE)
           /\ UNCHANGED <<users, loginAttempts>>
     IN  IF email = <<>> \/ password = <<>> \/ confirmPassword = <<>> THEN refuse(400)
         ELSE IF password # confirmPassword THEN refuse(400)
         ELSE IF ~emailRegex(email) THEN refuse(400)
         ELSE IF ~validatePassword(password).valid THEN refuse(400)
         ELSE IF EmailTaken(users, email) THEN refuse(409)
         ELSE /\ users' = create(users, email, password, now)
              /\ loginAttempts' =
                   Append(loginAttempts, AttemptRow(toLowerCase(email), TRUE, SqlNull, now))
              /\ reply' = Said("register", args, 201,
                               generateToken(users'.rows[Len(users'.rows)]), FALSE, FALSE)
  /\ UNCHANGED <<endpoint, input, output, page>>

\* handleRegister
Register(email, password, confirmPassword) ==
  /\ reply.seq < MaxOps
  /\ LET args == <<email, password, confirmPassword>>
         refuse(status) ==
           /\ reply' = Said("register", args, status, Undefined, FALSE, FALSE)
           /\ UNCHANGED <<users, loginAttempts>>
     IN  IF email = <<>> \/ password = <<>> \/ confirmPassword = <<>> THEN refuse(400)
         ELSE IF password # confirmPassword THEN refuse(400)
         ELSE IF ~emailRegex(email) THEN refuse(400)
         ELSE IF ~validatePassword(password).valid THEN refuse(400)
         ELSE IF EmailTaken(users, toLowerCase(email)) THEN refuse(409)
         ELSE /\ users' = create(users, toLowerCase(email), password, now)
              /\ loginAttempts' =
                   Append(loginAttempts, AttemptRow(toLowerCase(email), TRUE, SqlNull, now))
              /\ reply' = Said("register", args, 201,
                               generateToken(users'.rows[Len(users'.rows)]), FALSE, FALSE)
  /\ UNCHANGED <<endpoint, input, output, page>>

\* a faulty handleLogin: the rate limit is looked at after the user lookup
LoginLimitedLate(email, password) ==
  /\ reply.seq < MaxOps
  /\ reply.awaiting = <<>>
  /\ LET args == <<email, password>>
         normalizedEmail == toLowerCase(email)
         count == getRecentFailedAttempts(loginAttempts, normalizedEmail, now)
         found == findByEmail(users, normalizedEmail)
     IN  IF email = <<>> \/ password = <<>>
           THEN /\ reply' = Said("login", args, 400, Undefined, FALSE, FALSE)
                /\ UNCHANGED loginAttempts
         ELSE IF found = {}
           THEN /\ loginAttempts' = Append(loginAttempts,
                     AttemptRow(normalizedEmail, FALSE, "User not found", now))
                /\ reply' = Said("login", args, 401, Undefined, TRUE, FALSE)
         ELSE IF ~checkRateLimit(count)
           THEN /\ loginAttempts' = Append(loginAttempts,
                     AttemptRow(normalizedEmail, FALSE, "Rate limited", now))
                /\ reply' = Said("login", args, 429, Undefined, TRUE, FALSE)
         ELSE LET user == users.rows[CHOOSE i \in found : TRUE]
              IN  /\ reply' = [Said("login", args, 0, Undefined, TRUE, TRUE)
                                 EXCEPT !.awaiting =
                                   <<[args |-> args, user |-> user, email |-> normalizedEmail,
                                      valid |-> comparePassword(password, user.password_hash)]>>]
                  /\ UNCHANGED loginAttempts
  /\ UNCHANGED <<endpoint, input, output, page, users>>

\* handleLogin up to await comparePassword
Login(email, password) ==
  /\ reply.seq < MaxOps
  /\ reply.awaiting = <<>>
  /\ LET args == <<email, password>>
         normalizedEmail == toLowerCase(email)
         count == getRecentFailedAttempts(loginAttempts, normalizedEmail, now)
         found == findByEmail(users, normalizedEmail)
     IN  IF email = <<>> \/ password = <<>>
           THEN /\ reply' = Said("login", args, 400, Undefined, FALSE, FALSE)
                /\ UNCHANGED loginAttempts
         ELSE IF ~checkRateLimit(count)
           THEN /\ loginAttempts' = Append(loginAttempts,
                     AttemptRow(normalizedEmail, FALSE, "Rate limited", now))
                /\ reply' = Said("login", args, 429, Undefined, FALSE, FALSE)
         ELSE IF found = {}
           THEN /\ loginAttempts' = Append(loginAttempts,
                     AttemptRow(normalizedEmail, FALSE, "User not found", now))
                /\ reply' = Said("login", args, 401, Undefined, TRUE, FALSE)
         ELSE LET user == users.rows[CHOOSE i \in found : TRUE]
              IN  /\ reply' = [Said("login", args, 0, Undefined, TRUE, TRUE)
                                 EXCEPT !.awaiting =
                                   <<[args |-> args, user |-> user, email |-> normalizedEmail,
                                      valid |-> comparePassword(password, user.password_hash)]>>]
                  /\ UNCHANGED loginAttempts
  /\ UNCHANGED <<endpoint, input, output, page, users>>

\* handleLogin from the answer of comparePassword on
LoginResume ==
  /\ reply.awaiting # <<>>
  /\ LET a == reply.awaiting[1]
         said(status, token) ==
           [reply EXCEPT !.handler = "login", !.args = a.args, !.status = status,
                         !.token = token, !.found = TRUE, !.compared = TRUE,
                         !.awaiting = <<>>]
     IN  IF ~a.valid
           THEN /\ loginAttempts' = Append(loginAttempts,
                     AttemptRow(a.email, FALSE, "Invalid password", now))
                /\ reply' = said(401, Undefined)
                /\ UNCHANGED users
         ELSE /\ users' = updateLastLogin(users, a.user.id, now)
              /\ loginAttempts' = Append(loginAttempts,
                   AttemptRow(a.email, TRUE, SqlNull, now))
              /\ reply' = said(200, generateToken(a.user))
  /\ UNCHANGED <<endpoint, input, output, page>>

\* the rows of the other tables a deleted user leaves behind: ON DELETE CASCADE
\* for password_history, ON DELETE SET NULL for password_checks
CascadeHistory(rows, id) == SelectSeq(rows, LAMBDA row : row.user_id # id)
CascadeChecks(rows, id) ==
  [i \in 1..Len(rows) |->
     IF rows[i].user_id = id THEN [rows[i] EXCEPT !.user_id = SqlNull] ELSE rows[i]]

\* a faulty handleUpdateUserStatus: the requester is not compared with the target
UpdateStatusOfAnyone(requester, userId, isActive) ==
  /\ reply.seq < MaxOps
  /\ LET args == <<requester, userId, isActive>>
     IN  IF isActive \notin {"true", "false"}
           THEN /\ reply' = Said("status", args, 400, Undefined, FALSE, FALSE)
                /\ UNCHANGED users
         ELSE IF findById(users, userId) = {}
           THEN /\ reply' = Said("status", args, 404, Undefined, TRUE, FALSE)
                /\ UNCHANGED users
         ELSE /\ users' = updateStatus(users, userId, isActive = "true")
              /\ reply' = Said("status", args, 200, Undefined, TRUE, FALSE)
  /\ UNCHANGED <<endpoint, input, output, page, loginAttempts>>

\* handleUpdateUserStatus, asked by the admin requester
UpdateStatus(requester, userId, isActive) ==
  /\ reply.seq < MaxOps
  /\ LET args == <<requester, userId, isActive>>
     IN  IF isActive \notin {"true", "false"}
           THEN /\ reply' = Said("status", args, 400, Undefined, FALSE, FALSE)
                /\ UNCHANGED users
         ELSE IF userId = requester /\ isActive = "false"
           THEN /\ reply' = Said("status", args, 400, Undefined, FALSE, FALSE)
                /\ UNCHANGED users
         ELSE IF findById(users, userId) = {}
           THEN /\ reply' = Said("status", args, 404, Undefined, TRUE, FALSE)
                /\ UNCHANGED users
         ELSE /\ users' = updateStatus(users, userId, isActive = "true")
              /\ reply' = Said("status", args, 200, Undefined, TRUE, FALSE)
  /\ UNCHANGED <<endpoint, input, output, page, loginAttempts>>

\* handleDeleteUser, asked by the admin requester
DeleteUser(requester, userId) ==
  /\ reply.seq < MaxOps
  /\ LET args == <<requester, userId>>
     IN  IF userId = requester
           THEN /\ reply' = Said("delete", args, 400, Undefined, FALSE, FALSE)
                /\ UNCHANGED <<users, passwordHistory, passwordChecks>>
         ELSE IF findById(users, userId) = {}
           THEN /\ reply' = Said("delete", args, 404, Undefined, TRUE, FALSE)
                /\ UNCHANGED <<users, passwordHistory, passwordChecks>>
         ELSE /\ users' = delete(users, userId)
              /\ passwordHistory' = CascadeHistory(passwordHistory, userId)
              /\ passwordChecks' = CascadeChecks(passwordChecks, userId)
              /\ reply' = Said("delete", args, 200, Undefined, TRUE, FALSE)
  /\ UNCHANGED <<now, ticks, served, breachCache, pc, req, analysis, breachInfo,
                 fetchUrl, res, trace, input, output, page, loginAttempts>>

\* the users holding the role admin, who pass requireAdmin
Admins == {users.rows[i].id : i \in {k \in 1..Len(users.rows) : users.rows[k].role = "admin"}}
\* the identifiers a request can name: those made so far and one more
UserIds == 1..(users.created + 1)
\* the clock moves by just less than the window of the rate limit, or by all of it
AttemptSteps == {AttemptWindow - 1, AttemptWindow}

NextAccounts ==
  \/ \E email \in AccountEmails, password \in AccountPasswords,
        confirmPassword \in AccountPasswords :
       Register(email, password, confirmPassword)
  \/ \E email \in AccountEmails, password \in AccountPasswords : Login(email, password)
  \/ LoginResume
  \/ \E requester \in Admins, userId \in UserIds, isActive \in StatusValues :
       UpdateStatus(requester, userId, isActive)
  \/ \E requester \in Admins, userId \in UserIds : DeleteUser(requester, userId)
  \/ \E d \in AttemptSteps : Tick(d)

SpecAccounts == Init /\ [][NextAccounts]_vars

\* this step is a request taken by the handler h
Handled(h) == reply'.seq = reply.seq + 1 /\ reply'.handler = h
\* the user id has a row and the row is deactivated
Deactivated(table, id) ==
  \E i \in 1..Len(table.rows) : table.rows[i].id = id /\ table.rows[i].is_active = 0

\* C25: once handleUpdateUserStatus has deactivated a user, a call for the same
\* user with isActive = true succeeds, and the user is active again and found by
\* findById and findByEmail.
C25_Reactivates ==
  [][(Handled("status") /\ reply'.args[3] = "true" /\ Deactivated(users, reply'.args[2]))
       => /\ reply'.status = 200
          /\ \E i \in findById(users', reply'.args[2]) :
               i \in findByEmail(users', users'.rows[i].email)]_vars

\* the last request asked the admin handlers to deactivate or delete the requester
OnOneself(r) ==
  \/ r.handler = "status" /\ r.args[2] = r.args[1] /\ r.args[3] = "false"
  \/ r.handler = "delete" /\ r.args[2] = r.args[1]

\* C26: handleUpdateUserStatus with isActive = false and handleDeleteUser, asked
\* for the requesting admin's own id, answer 400 and leave the users table as
\* it was.
C26_SelfKept ==
  [][(reply'.seq = reply.seq + 1 /\ OnOneself(reply'))
       => reply'.status = 400 /\ users' = users]_vars

\* C26 happens: the admin asked to be deleted or deactivated and was refused
C26_Witness ==
  /\ reply.handler \in {"status", "delete"}
  /\ OnOneself(reply)
  /\ reply.status = 400
  /\ findById(users, reply.args[1]) # {}

\* the failed attempts checkRateLimit is asked about, for the email as typed
RecentFailures(email) ==
  getRecentFailedAttempts(loginAttempts, toLowerCase(email), now)

\* C27: when checkRateLimit rejects the failed attempts of the last 15 minutes
\* for the lowercased email, handleLogin answers 429 without looking the user up
\* or comparing the password, issues no token, leaves last_login alone, and
\* records the attempt as failed with the reason 'Rate limited'.
C27_LimitedFirst ==
  [][(/\ Handled("login")
      /\ reply'.args[1] # <<>> /\ reply'.args[2] # <<>>
      /\ ~checkRateLimit(RecentFailures(reply'.args[1])))
       => /\ reply'.status = 429
          /\ ~reply'.found /\ ~reply'.compared
          /\ reply'.token = Undefined
          /\ reply'.awaiting = reply.awaiting
          /\ users' = users
          /\ loginAttempts' =
               Append(loginAttempts,
                      AttemptRow(toLowerCase(reply'.args[1]), FALSE, "Rate limited", now))]_vars

\* C27 happens: the admin's own credentials were refused by the rate limit
C27_Witness ==
  /\ reply.handler = "login"
  /\ reply.status = 429
  /\ reply.args = <<AdminEmail, AdminPassword>>
  /\ loginAttempts[Len(loginAttempts)].failure_reason = "Rate limited"

\* the arguments pass the checks handleRegister makes before creating the user
Registrable(args) ==
  /\ args[1] # <<>> /\ args[2] # <<>> /\ args[3] # <<>>
  /\ args[2] = args[3]
  /\ emailRegex(args[1])
  /\ validatePassword(args[2]).valid
\* no two rows of users have the same email, and every email is in lower case
EmailsDistinct ==
  \A i, j \in 1..Len(users.rows) :
    /\ users.rows[i].email = toLowerCase(users.rows[i].email)
    /\ users.rows[i].email = users.rows[j].email => i = j

MaxEdits == 3     \* changes of the input field
MaxSent == 3      \* requests the page sends
PagePasswords == {<<>>, <<"a">>, <<"a","b">>}

\* setPassword(pwd) with a new value: the effect's cleanup clears the pending
\* timer and the effect sets one for the new value
Type(pwd) ==
  /\ page.edits < MaxEdits
  /\ pwd # page.password
  /\ page' = [page EXCEPT !.password = pwd, !.timer = Some(pwd), !.edits = @ + 1]
  /\ UNCHANGED <<endpoint, input, output, users, loginAttempts, reply>>

\* the timeout fires: analyzePassword(pwd) up to await fetch
TimerFires ==
  /\ page.timer # Undefined
  /\ LET pwd == page.timer[1]
     IN  IF pwd = <<>>
           THEN page' = [page EXCEPT !.timer = Undefined,
                                     !.analysis = [kind |-> "empty", password |-> pwd]]
         ELSE /\ page.sent < MaxSent
              /\ page' = [page EXCEPT !.timer = Undefined,
                                      !.isChecking = TRUE,
                                      !.sent = @ + 1,
                                      !.inflight = @ \cup {[n |-> page.sent + 1, password |-> pwd]}]
  /\ UNCHANGED <<endpoint, input, output, users, loginAttempts, reply>>

\* analyzePassword from the answer of fetch on: the result of the request is
\* displayed when response.ok, the fallback otherwise; finally the indicator is
\* turned off. Nothing is written between await fetch and await response.json().
Respond(f, ok) ==
  /\ f \in page.inflight
  /\ page' = [page EXCEPT !.inflight = @ \ {f},
                          !.analysis = [kind |-> IF ok THEN "result" ELSE "fallback",
                                        password |-> f.password],
                          !.isChecking = FALSE]
  /\ UNCHANGED <<endpoint, input, output, users, loginAttempts, reply>>

NextPage ==
  \/ \E pwd \in PagePasswords : Type(pwd)
  \/ TimerFires
  \/ \E f \in page.inflight, ok \in BOOLEAN : Respond(f, ok)

SpecPage == Init /\ [][NextPage]_vars

\* no timer is pending and no request is in flight
PageQuiet == page.timer = Undefined /\ page.inflight = {}

\* C29: once editing has stopped and every request in flight has completed, the
\* analysis displayed is the one for the password in the input field, and the
\* checking indicator is on exactly while some request is in flight.
C29_DisplaysCurrent ==
  /\ PageQuiet => page.analysis.password = page.password
  /\ page.isChecking <=> page.inflight # {}

\* C30: in a response of the analysis endpoint the affirmative message appears
\* only as the sole suggestion, never together with the breach warning.
C30_AffirmativeAlone ==
  \A r \in Reqs :
    (pc[r] = "done" /\ res[r].status = 200) =>
      LET s == res[r].body.suggestions
      IN  (\E i \in 1..Len(s) : s[i] = Affirmative) => s = <<Affirmative>>

====
